---- MODULE Spec2Model ----
(***************************************************************************)
(* Model of the ssecs storage and migration core: SlotMap, Signature,      *)
(* Column, Archetype, Core, the per-thread command queues (Mantle) and the *)
(* flush gate (Crust), with the View/World entry points on top.            *)
(*                                                                         *)
(* Conventions.  A Rust Vec is a TLA+ sequence; a 0-based Rust index i is  *)
(* position i + 1.  Option<T> is a sequence of length 0 (None) or 1        *)
(* (Some).  A panic is a non-empty message in a `panic` field; once it is  *)
(* set, the remaining statements of the operation do not run and the data  *)
(* is left as the panic found it.  A function of several statements is a   *)
(* chain of operators, each taking what the statements before it produced. *)
(***************************************************************************)
EXTENDS Integers, Sequences, FiniteSets, Bags, TLC

(***************************************************************************)
(* Bounds of the model.                                                    *)
(***************************************************************************)
\* One caller thread and the whole store (Spec):
\* entities World::spawn may create in one behaviour
MaxSpawns == 3
\* component values Command::insert may create in one behaviour
MaxVals == 2
\* commands that may wait in the queues at a time
MaxQueue == 1
\* ColumnReadGuards that may be alive at a time
MaxGuards == 1
\* Two caller threads at the gate, with guards (SpecConc):
ConcSpawns == 1
ConcVals == 1
ConcQueue == 1
\* Two caller threads and their queues, without guards (SpecQueue):
QueueSpawns == 1
QueueLen == 2
\* One caller thread and one entity (SpecStore):
StoreSpawns == 1
StoreVals == 1
StoreQueue == 1
\* Two caller threads, each with commands for its own entity (SpecOrder):
OrderSpawns == 2
OrderQueue == 2
\* The Signature functions on their own (SpecSignature):
\* the largest FieldId of a signature
MaxField == 3
\* the longest slice Signature::new is given
SliceLen == 3

(***************************************************************************)
(* Program constants.                                                      *)
(***************************************************************************)
\* usize::MAX, the flush regime of flush_guard and the sentinel row; the
\* largest integer of the model checker stands for it
USIZE_MAX == 2147483647

NoPanic == ""

None == << >>
Some(x) == << x >>
IsSome(o) == Len(o) = 1
Unwrap(o) == o[1]

\* Vec indexing with a 0-based index
At(vec, i) == vec[i + 1]

\* Vec::swap_remove on an index in range: the last element takes the place
\* of the removed one
swap_remove(vec, i) ==
    LET last == Len(vec)
    IN  IF i + 1 = last
        THEN SubSeq(vec, 1, last - 1)
        ELSE [k \in 1..(last - 1) |-> IF k = i + 1 THEN vec[last] ELSE vec[k]]

(***************************************************************************)
(* Components.  COMPONENT_ENTRIES has one init callback per registered     *)
(* component; the ordinal of a component is the index of its entity and    *)
(* its FieldId.  ComponentInfo is itself a component.  Player is           *)
(* zero-sized, Foo holds one byte.  A ComponentInfo value is modelled by   *)
(* the two fields the core reads back from it, <<id, size>>.               *)
(***************************************************************************)
ComponentInfoId == 0
PlayerId == 1
FooId == 2

COMPONENT_ENTRIES ==
    << [id |-> ComponentInfoId, size |-> 2],
       [id |-> PlayerId, size |-> 0],
       [id |-> FooId, size |-> 1] >>

FieldIds == {COMPONENT_ENTRIES[k].id : k \in 1..Len(COMPONENT_ENTRIES)}

\* Component::info() of the component with this id
Component_info(id) == COMPONENT_ENTRIES[id + 1]

\* the bytes of a ComponentInfo value
InfoBytes(info) == << info.id, info.size >>

\* Entity::from_offset
from_offset(val) == [index |-> val, generation |-> 1]

\* FieldId::from(Entity): the low 32 bits of the raw key are the index
FieldId_from(entity) == entity.index

\* FieldId::as_entity: the raw value read back as a key, generation 0
as_entity(field) == [index |-> field, generation |-> 0]

(***************************************************************************)
(* SlotMap.                                                                *)
(***************************************************************************)
\* u32::MAX, where a slot's generation wraps; the largest integer of the
\* model checker stands for it
U32_MAX == 2147483647

SlotMap_default == [slots |-> << >>, available |-> << >>]

\* an insert whose generation wraps from u32::MAX to 0
SlotMap_insert_at_wrapping(map, slot_index, data, generation) ==
    [map |-> [map EXCEPT !.slots[slot_index + 1] =
                 [generation |-> IF generation # U32_MAX THEN generation + 1 ELSE 0,
                  data |-> Some(data)]],
     key |-> [index |-> slot_index,
              generation |-> IF generation # U32_MAX THEN generation + 1 ELSE 0]]

\* the end of SlotMap::insert: the slot gets the data and its next
\* generation, which wraps from u32::MAX to 1; the result is [map, key]
SlotMap_insert_at(map, slot_index, data, generation) ==
    [map |-> [map EXCEPT !.slots[slot_index + 1] =
                 [generation |-> IF generation # U32_MAX THEN generation + 1 ELSE 1,
                  data |-> Some(data)]],
     key |-> [index |-> slot_index,
              generation |-> IF generation # U32_MAX THEN generation + 1 ELSE 1]]

\* SlotMap::insert: a popped available index, or else a new slot
SlotMap_insert(map, data) ==
    IF Len(map.available) > 0
    THEN SlotMap_insert_at(
            [map EXCEPT !.available = SubSeq(@, 1, Len(@) - 1)],
            map.available[Len(map.available)], data,
            At(map.slots, map.available[Len(map.available)]).generation)
    ELSE SlotMap_insert_at(
            [map EXCEPT !.slots = Append(@, [generation |-> 0, data |-> None])],
            Len(map.slots), data, 0)

\* SlotMap::get
SlotMap_get(map, key) ==
    IF key.index < Len(map.slots)
       /\ At(map.slots, key.index).generation = key.generation
    THEN At(map.slots, key.index).data
    ELSE None

\* SlotMap::get_ignore_generation
SlotMap_get_ignore_generation(map, key) ==
    IF key.index < Len(map.slots) THEN At(map.slots, key.index).data ELSE None

\* a remove that leaves the data in the slot
SlotMap_remove_keep(map, key) == map

\* SlotMap::remove: takes the data out of the slot; the slot keeps its
\* generation and is not pushed on `available`
SlotMap_remove(map, key) ==
    IF IsSome(SlotMap_get(map, key))
    THEN [map EXCEPT !.slots[key.index + 1].data = None]
    ELSE map

\* IndexMut: the slot of a key the map holds gets new data
SlotMap_set(map, key, data) ==
    [map EXCEPT !.slots[key.index + 1].data = Some(data)]

(***************************************************************************)
(* Signature: a sorted, duplicate-free vector of FieldIds.                 *)
(***************************************************************************)
\* binary_search on a sorted vector: the number of smaller elements is the
\* position of the field (Ok) or its insertion point (Err)
binary_search(sig, field) ==
    [found |-> \E k \in 1..Len(sig) : sig[k] = field,
     n |-> Cardinality({k \in 1..Len(sig) : sig[k] < field})]

\* Vec::sort, by insertion: the vector with x put behind the elements that
\* are not greater
sort_insert(sorted, x) ==
    SubSeq(sorted, 1, Cardinality({k \in 1..Len(sorted) : sorted[k] <= x}))
        \o << x >>
        \o SubSeq(sorted, Cardinality({k \in 1..Len(sorted) : sorted[k] <= x}) + 1,
                  Len(sorted))

RECURSIVE sort(_)
sort(vec) ==
    IF vec = << >> THEN << >>
    ELSE sort_insert(sort(SubSeq(vec, 1, Len(vec) - 1)), vec[Len(vec)])

\* Vec::dedup: of consecutive equal elements the first stays
RECURSIVE dedup(_)
dedup(vec) ==
    IF Len(vec) <= 1 THEN vec
    ELSE IF vec[1] = vec[2] THEN dedup(Tail(vec))
    ELSE << vec[1] >> \o dedup(Tail(vec))

\* a Signature::new that does not sort
Signature_new_unsorted(fields) == dedup(fields)

\* Signature::new
Signature_new(fields) == dedup(sort(fields))

contains(sig, field) == binary_search(sig, field).found

with(sig, field) ==
    LET r == binary_search(sig, field)
    IN  IF r.found THEN sig
        ELSE SubSeq(sig, 1, r.n) \o << field >> \o SubSeq(sig, r.n + 1, Len(sig))

without(sig, field) ==
    LET r == binary_search(sig, field)
    IN  IF r.found
        THEN SubSeq(sig, 1, r.n) \o SubSeq(sig, r.n + 2, Len(sig))
        ELSE sig

\* a main loop that ends at the first pair of unequal fields
RECURSIVE each_shared_loop_stop(_, _, _, _, _)
each_shared_loop_stop(self, other, n, m, acc) ==
    IF n < Len(self) /\ m < Len(other) /\ At(self, n) = At(other, m)
    THEN each_shared_loop_stop(self, other, n, m + 1, Append(acc, << n, m >>))
    ELSE acc

\* the main loop of each_shared from (n, m), the pairs found so far in acc
RECURSIVE each_shared_loop(_, _, _, _, _)
each_shared_loop(self, other, n, m, acc) ==
    IF n < Len(self) /\ m < Len(other)
    THEN LET acc1 == IF At(self, n) = At(other, m)
                     THEN Append(acc, << n, m >>) ELSE acc
         IN  IF At(self, n) < At(other, m)
             THEN each_shared_loop(self, other, n + 1, m, acc1)
             ELSE each_shared_loop(self, other, n, m + 1, acc1)
    ELSE acc

\* the first while loop: skip the fields of self below other[m]
RECURSIVE each_shared_skip_n(_, _, _, _)
each_shared_skip_n(self, other, n, m) ==
    IF n < Len(self) /\ At(self, n) < At(other, m)
    THEN each_shared_skip_n(self, other, n + 1, m)
    ELSE n

\* the second while loop: skip the fields of other below self[n]
RECURSIVE each_shared_skip_m(_, _, _, _)
each_shared_skip_m(self, other, n, m) ==
    IF m < Len(other) /\ At(other, m) < At(self, n)
    THEN each_shared_skip_m(self, other, n, m + 1)
    ELSE m

\* each_shared once n is known
each_shared_from(self, other, n) ==
    IF n = Len(self) THEN << >>
    ELSE IF each_shared_skip_m(self, other, n, 0) = Len(other) THEN << >>
    ELSE each_shared_loop(self, other, n, each_shared_skip_m(self, other, n, 0), << >>)

\* Signature::each_shared: the calls func(n, m), in order
each_shared(self, other) ==
    IF Len(self) = 0 \/ Len(other) = 0 THEN << >>
    ELSE each_shared_from(self, other, each_shared_skip_n(self, other, 0, 0))


(***************************************************************************)
(* Column: a byte buffer cut into chunks of info.size bytes.  The column   *)
(* operations work on a record [col, drops, panic]: the column, the bag of *)
(* chunks the drop thunk has been called on, and the panic if one was      *)
(* raised.                                                                 *)
(***************************************************************************)
Column_new(component_info) == [buffer |-> << >>, info |-> component_info]

no_chunks(col) ==
    IF col.info.size = 0 THEN 0 ELSE Len(col.buffer) \div col.info.size

\* the slice buffer[row * size..][..size] is in range
chunk_in_range(col, row) == row * col.info.size + col.info.size <= Len(col.buffer)

get_chunk(col, row) ==
    SubSeq(col.buffer, row * col.info.size + 1, row * col.info.size + col.info.size)

\* the buffer with the chunk at row replaced
put_chunk(buffer, size, row, bytes) ==
    SubSeq(buffer, 1, row * size) \o bytes
        \o SubSeq(buffer, row * size + size + 1, Len(buffer))

\* Column::swap_with_last: swap_with_slice panics unless `right` is exactly
\* one chunk long
swap_with_last(x, row) ==
    IF x.panic # NoPanic THEN x
    ELSE IF row + 1 < no_chunks(x.col)
    THEN IF Len(x.col.buffer) - (row + 1) * x.col.info.size # x.col.info.size
         THEN [x EXCEPT !.panic = "swap_with_slice: length mismatch"]
         ELSE [x EXCEPT !.col.buffer =
                  put_chunk(put_chunk(@, x.col.info.size, row,
                                      get_chunk(x.col, no_chunks(x.col) - 1)),
                            x.col.info.size, no_chunks(x.col) - 1,
                            get_chunk(x.col, row))]
    ELSE x

\* Column::call_drop
call_drop(x, row) ==
    IF x.panic # NoPanic THEN x
    ELSE IF ~chunk_in_range(x.col, row)
    THEN [x EXCEPT !.panic = "call_drop: range out of bounds"]
    ELSE [x EXCEPT !.drops = @ (+) SetToBag({<< x.col.info.id, get_chunk(x.col, row) >>})]

\* the overwrite of write_into, the old chunk dropped: copy_from_slice
\* panics unless the buffer ends with the chunk at row
write_into_copy(d, row, bytes) ==
    IF d.panic # NoPanic THEN d
    ELSE IF Len(d.col.buffer) - row * d.col.info.size # Len(bytes)
    THEN [d EXCEPT !.panic = "copy_from_slice: length mismatch"]
    ELSE [d EXCEPT !.col.buffer = put_chunk(@, d.col.info.size, row, bytes)]

\* Column::write_into
write_into(x, row, bytes) ==
    IF x.panic # NoPanic THEN x
    ELSE IF x.col.info.size = 0 THEN x
    ELSE IF row < no_chunks(x.col)
    THEN write_into_copy(call_drop(x, row), row, bytes)
    ELSE [x EXCEPT !.col.buffer = @ \o bytes]

\* the for loop of shrink_to_fit, from chunk n
RECURSIVE shrink_drop_loop(_, _)
shrink_drop_loop(x, n) ==
    IF x.panic # NoPanic \/ n >= no_chunks(x.col) THEN x
    ELSE shrink_drop_loop(call_drop(x, n), n + 1)

\* AVec::truncate
truncate(x, len) ==
    IF x.panic # NoPanic THEN x
    ELSE IF len < Len(x.col.buffer)
    THEN [x EXCEPT !.col.buffer = SubSeq(@, 1, len)]
    ELSE x

\* shrink_to_fit that drops the chunks and leaves the buffer as long as it was
shrink_to_fit_keep(x, target_chunks) == shrink_drop_loop(x, target_chunks)

\* Column::shrink_to_fit
shrink_to_fit(x, target_chunks) ==
    truncate(shrink_drop_loop(x, target_chunks), target_chunks * x.col.info.size)

\* swap_drop after its swap_with_last
swap_drop_last(s) ==
    IF s.panic # NoPanic THEN s
    ELSE IF s.col.info.size = 0
    THEN [s EXCEPT !.panic = "attempt to divide by zero"]
    ELSE IF Len(s.col.buffer) \div s.col.info.size = 0
    THEN [s EXCEPT !.panic = "attempt to subtract with overflow"]
    ELSE shrink_to_fit(call_drop(s, Len(s.col.buffer) \div s.col.info.size - 1),
                       Len(s.col.buffer) \div s.col.info.size - 1)

\* Column::swap_drop
swap_drop(x, row) == swap_drop_last(swap_with_last(x, row))

\* move_into after its swap_with_last, s the old column swapped: the last
\* chunk goes to the end of the other column
move_into_last(y, s) ==
    IF s.panic # NoPanic THEN [y EXCEPT !.panic = s.panic]
    ELSE IF Len(s.col.buffer) < s.col.info.size
    THEN [y EXCEPT !.panic = "attempt to subtract with overflow"]
    ELSE [y EXCEPT
            !.new.buffer = @ \o SubSeq(s.col.buffer,
                                       Len(s.col.buffer) - s.col.info.size + 1,
                                       Len(s.col.buffer)),
            !.old.buffer = SubSeq(s.col.buffer, 1,
                                  Len(s.col.buffer) - s.col.info.size)]

\* Column::move_into on the pair [old, new, panic]: no drop thunk runs
move_into(y, row) ==
    IF y.panic # NoPanic THEN y
    ELSE IF y.old.info.size = 0 THEN y
    ELSE move_into_last(y, swap_with_last(
            [col |-> y.old, drops |-> EmptyBag, panic |-> NoPanic], row))

(***************************************************************************)
(* Archetype.  archetypes is the SlotMap<ArchetypeId, Archetype>; nothing  *)
(* is ever removed from it, so an ArchetypeId is modelled by the position  *)
(* of the archetype (the empty archetype is 1).  edges is total over the   *)
(* fields: a missing HashMap entry and a default ArchetypeEdge behave the  *)
(* same under entry().or_default() and get().and_then().                   *)
(***************************************************************************)
empty_archetype == 1

ArchetypeEdge_default == [add |-> None, remove |-> None]

Archetype_default ==
    [signature |-> << >>, entities |-> << >>, columns |-> << >>,
     edges |-> [f \in FieldIds |-> ArchetypeEdge_default]]

\* EntityLocation::uninitialized
uninitialized == [archetype |-> empty_archetype, row |-> USIZE_MAX]

\* one column of archetype a as the subject of a column operation
ColX(m, a, n) ==
    [col |-> At(m.core.archetypes[a].columns, n), drops |-> m.drops, panic |-> m.panic]

PutColX(m, a, n, x) ==
    [m EXCEPT !.core.archetypes[a].columns[n + 1] = x.col,
              !.drops = x.drops, !.panic = x.panic]

\* the for loop of Archetype::drop, from column n
RECURSIVE Archetype_drop_loop(_, _, _, _)
Archetype_drop_loop(m, a, row, n) ==
    IF m.panic # NoPanic \/ n >= Len(m.core.archetypes[a].columns) THEN m
    ELSE Archetype_drop_loop(PutColX(m, a, n, swap_drop(ColX(m, a, n), row)),
                             a, row, n + 1)

\* an Archetype::drop after which the archetype is no longer registered in
\* signature_index
Archetype_drop_forget(m, a, row) ==
    IF m.panic # NoPanic \/ row >= Len(m.core.archetypes[a].entities) THEN m
    ELSE [Archetype_drop_loop(
             [m EXCEPT !.core.archetypes[a].entities = swap_remove(@, row)],
             a, row, 0)
          EXCEPT !.core.signature_index = {e \in @ : e.id # a}]

\* Archetype::drop
Archetype_drop(m, a, row) ==
    IF m.panic # NoPanic THEN m
    ELSE IF row >= Len(m.core.archetypes[a].entities)
    THEN [m EXCEPT !.panic = "swap_remove index out of bounds"]
    ELSE Archetype_drop_loop(
            [m EXCEPT !.core.archetypes[a].entities = swap_remove(@, row)],
            a, row, 0)

(***************************************************************************)
(* Core.  field_index[f] is the set of (archetype, column) entries of the  *)
(* FieldLocations of f; signature_index is the set of its (signature, id)  *)
(* entries.                                                                *)
(***************************************************************************)
\* the loop of Core::new that spawns the component entities into the empty
\* archetype
RECURSIVE Core_new_entities(_, _, _)
Core_new_push(r, entities, n) == Core_new_entities(r.map, Append(entities, r.key), n + 1)

Core_new_entities(entity_index, entities, n) ==
    IF n >= Len(COMPONENT_ENTRIES)
    THEN [entity_index |-> entity_index, entities |-> entities]
    ELSE Core_new_push(
            SlotMap_insert(entity_index, [archetype |-> empty_archetype, row |-> n]),
            entities, n)

component_info_archetype == 2

\* Core::new, the component entities spawned
Core_new_with(spawned) ==
    [entity_index |-> spawned.entity_index,
     field_index |->
        [f \in FieldIds |->
            IF f = ComponentInfoId
            THEN {[id |-> component_info_archetype, col |-> 0]}
            ELSE {}],
     signature_index |->
        {[signature |-> << >>, id |-> empty_archetype],
         [signature |-> << ComponentInfoId >>, id |-> component_info_archetype]},
     archetypes |->
        << [Archetype_default EXCEPT
               !.entities = spawned.entities,
               !.edges[ComponentInfoId].add = Some(component_info_archetype)],
           [signature |-> << ComponentInfoId >>,
            entities |-> << >>,
            columns |-> << Column_new(Component_info(ComponentInfoId)) >>,
            edges |-> [f \in FieldIds |->
                          IF f = ComponentInfoId
                          THEN [add |-> None, remove |-> Some(empty_archetype)]
                          ELSE ArchetypeEdge_default]] >>]

\* Core::new
Core_new == Core_new_with(Core_new_entities(SlotMap_default, << >>, 0))

\* HashMap::get on signature_index
signature_index_get(core, signature) ==
    IF \E e \in core.signature_index : e.signature = signature
    THEN Some((CHOOSE e \in core.signature_index : e.signature = signature).id)
    ELSE None

\* HashMap::get on the FieldLocations of a field
field_locations_get(core, field, archetype) ==
    IF \E e \in core.field_index[field] : e.id = archetype
    THEN Some((CHOOSE e \in core.field_index[field] : e.id = archetype).col)
    ELSE None

\* Core::entity_location and Core::entity_location_locking
entity_location(core, entity) == SlotMap_get(core.entity_index, entity)

\* Core::archetype_has
archetype_has(core, field, archetype) ==
    IsSome(field_locations_get(core, field, archetype))

\* the chunk of a column read as a ComponentInfo
read_info(column, row) ==
    IF ~chunk_in_range(column, row)
    THEN [panic |-> "get_chunk: range out of bounds", info |-> None]
    ELSE [panic |-> NoPanic,
          info |-> Some([id |-> get_chunk(column, row)[1],
                         size |-> get_chunk(column, row)[2]])]

\* get_component_info with the ComponentInfo column index of the archetype
get_component_info_column(core, location, ci) ==
    IF ~IsSome(ci) THEN [panic |-> NoPanic, info |-> None]
    ELSE IF Unwrap(ci) >= Len(core.archetypes[location.archetype].columns)
    THEN [panic |-> NoPanic, info |-> None]
    ELSE read_info(At(core.archetypes[location.archetype].columns, Unwrap(ci)),
                   location.row)

\* get_component_info with the location of the component's entity
get_component_info_at(core, loc) ==
    IF ~IsSome(loc) THEN [panic |-> NoPanic, info |-> None]
    ELSE IF Unwrap(loc).archetype > Len(core.archetypes)
    THEN [panic |-> NoPanic, info |-> None]
    ELSE get_component_info_column(core, Unwrap(loc),
            field_locations_get(core, ComponentInfoId, Unwrap(loc).archetype))

\* Core::get_component_info: [panic, info], info an Option<ComponentInfo>
get_component_info(core, component) ==
    get_component_info_at(core,
        SlotMap_get_ignore_generation(core.entity_index, component))

\* the chunk of a column at a row: [panic, bytes]
read_chunk(column, row) ==
    IF ~chunk_in_range(column, row)
    THEN [panic |-> "get_chunk: range out of bounds", bytes |-> None]
    ELSE [panic |-> NoPanic, bytes |-> Some(get_chunk(column, row))]

\* get_bytes that unwraps the column index of the field
get_bytes_column_unwrap(core, location, ci) ==
    IF ~IsSome(ci)
    THEN [panic |-> "called Option::unwrap() on a None value", bytes |-> None]
    ELSE read_chunk(At(core.archetypes[location.archetype].columns, Unwrap(ci)),
                    location.row)

\* get_bytes with the column index of the field in the archetype
get_bytes_column(core, location, ci) ==
    IF ~IsSome(ci) THEN [panic |-> NoPanic, bytes |-> None]
    ELSE IF Unwrap(ci) >= Len(core.archetypes[location.archetype].columns)
    THEN [panic |-> NoPanic, bytes |-> None]
    ELSE read_chunk(At(core.archetypes[location.archetype].columns, Unwrap(ci)),
                    location.row)

\* Core::get_bytes: [panic, bytes], bytes an Option of the chunk
get_bytes(core, field, location) ==
    get_bytes_column(core, location,
                     field_locations_get(core, field, location.archetype))

\* Core::create_uninitialized_entity: [map, key]
create_uninitialized_entity(core) == SlotMap_insert(core.entity_index, uninitialized)

\* an initialize_entity_location that does not look for the sentinel
initialize_entity_location_again(m, entity) ==
    IF m.panic # NoPanic THEN m
    ELSE IF ~IsSome(entity_location(m.core, entity))
    THEN [m EXCEPT !.panic = "called Option::unwrap() on a None value"]
    ELSE [m EXCEPT
            !.core.archetypes[empty_archetype].entities = Append(@, entity),
            !.core.entity_index =
               SlotMap_set(@, entity,
                  [archetype |-> empty_archetype,
                   row |-> Len(m.core.archetypes[empty_archetype].entities)])]

\* Core::initialize_entity_location
initialize_entity_location(m, entity) ==
    IF m.panic # NoPanic THEN m
    ELSE IF ~IsSome(entity_location(m.core, entity))
    THEN [m EXCEPT !.panic = "called Option::unwrap() on a None value"]
    ELSE IF Unwrap(entity_location(m.core, entity)) = uninitialized
    THEN [m EXCEPT
            !.core.archetypes[empty_archetype].entities = Append(@, entity),
            !.core.entity_index =
               SlotMap_set(@, entity,
                  [archetype |-> empty_archetype,
                   row |-> Len(m.core.archetypes[empty_archetype].entities)])]
    ELSE m

\* Core::despawn with the location SlotMap::remove returned
despawn_at(m, entity, location) ==
    IF IsSome(location)
    THEN Archetype_drop(
            [m EXCEPT !.core.entity_index = SlotMap_remove(@, entity)],
            Unwrap(location).archetype, Unwrap(location).row)
    ELSE m

\* a despawn that unwraps the location SlotMap::remove returned
despawn_unwrap(m, entity) ==
    IF m.panic # NoPanic THEN m
    ELSE IF ~IsSome(entity_location(m.core, entity))
    THEN [m EXCEPT !.panic = "called Option::unwrap() on a None value"]
    ELSE despawn_at(m, entity, entity_location(m.core, entity))

\* Core::despawn
despawn(m, entity) ==
    IF m.panic # NoPanic THEN m
    ELSE despawn_at(m, entity, entity_location(m.core, entity))

\* one call of the each_shared callback of move_entity: y is what move_into
\* left of the pair of columns
move_shared_put(m, old, new, n, k, y) ==
    [m EXCEPT !.core.archetypes[old].columns[n + 1] = y.old,
              !.core.archetypes[new].columns[k + 1] = y.new,
              !.panic = y.panic]

\* the each_shared callback of move_entity over the pairs of shared columns
RECURSIVE move_shared(_, _, _, _, _)
move_shared(m, old, new, row, pairs) ==
    IF m.panic # NoPanic \/ pairs = << >> THEN m
    ELSE move_shared(
            move_shared_put(m, old, new, pairs[1][1], pairs[1][2],
               move_into([old |-> At(m.core.archetypes[old].columns, pairs[1][1]),
                          new |-> At(m.core.archetypes[new].columns, pairs[1][2]),
                          panic |-> NoPanic], row)),
            old, new, row, Tail(pairs))

\* the last loop of move_entity: shrink every column of the old archetype
RECURSIVE shrink_columns(_, _, _, _)
shrink_columns(m, a, target, n) ==
    IF m.panic # NoPanic \/ n >= Len(m.core.archetypes[a].columns) THEN m
    ELSE shrink_columns(PutColX(m, a, n, shrink_to_fit(ColX(m, a, n), target)),
                        a, target, n + 1)

\* move_entity, "Drop any unmoved bytes"
move_entity_shrink(m, old) ==
    shrink_columns(m, old, Len(m.core.archetypes[old].entities), 0)

\* a move_entity that leaves the index entry of the entity that took the
\* vacated row as it was
move_entity_displaced_stale(m, old, row) == move_entity_shrink(m, old)

\* move_entity, the entity that took the vacated row gets that row
move_entity_displaced(m, old, row) ==
    IF row < Len(m.core.archetypes[old].entities)
    THEN IF ~IsSome(entity_location(m.core, At(m.core.archetypes[old].entities, row)))
         THEN [m EXCEPT !.panic = "invalid SlotMap key used"]
         ELSE move_entity_shrink(
                 [m EXCEPT !.core.entity_index =
                     SlotMap_set(@, At(m.core.archetypes[old].entities, row),
                        [Unwrap(entity_location(m.core,
                                   At(m.core.archetypes[old].entities, row)))
                            EXCEPT !.row = row])],
                 old)
    ELSE move_entity_shrink(m, old)

\* move_entity, "Update entity locations", after the columns moved
move_entity_locations(m, old_location, destination_id, entity) ==
    IF m.panic # NoPanic THEN m
    ELSE IF ~IsSome(entity_location(m.core, entity))
    THEN [m EXCEPT !.panic = "invalid SlotMap key used"]
    ELSE move_entity_displaced(
            [m EXCEPT !.core.entity_index =
                SlotMap_set(@, entity,
                   [archetype |-> destination_id,
                    row |-> Len(m.core.archetypes[destination_id].entities) - 1])],
            old_location.archetype, old_location.row)

\* move_entity, "Move bytes from old columns to new columns", after the
\* entity entry moved
move_entity_columns(m, old_location, destination_id, entity) ==
    move_entity_locations(
        move_shared(m, old_location.archetype, destination_id, old_location.row,
                    each_shared(m.core.archetypes[old_location.archetype].signature,
                                m.core.archetypes[destination_id].signature)),
        old_location, destination_id, entity)

\* Core::move_entity
move_entity(m, old_location, destination_id) ==
    IF m.panic # NoPanic THEN m
    ELSE IF old_location.archetype = destination_id THEN m
    ELSE IF old_location.archetype > Len(m.core.archetypes)
            \/ destination_id > Len(m.core.archetypes)
    THEN [m EXCEPT !.panic = "called Option::unwrap() on a None value"]
    ELSE IF old_location.row >= Len(m.core.archetypes[old_location.archetype].entities)
    THEN [m EXCEPT !.panic = "swap_remove index out of bounds"]
    ELSE move_entity_columns(
            [m EXCEPT
               !.core.archetypes[old_location.archetype].entities =
                   swap_remove(@, old_location.row),
               !.core.archetypes[destination_id].entities =
                   Append(@, At(m.core.archetypes[old_location.archetype].entities,
                                old_location.row))],
            old_location, destination_id,
            At(m.core.archetypes[old_location.archetype].entities, old_location.row))

\* an iteration of connect_edges that links the two archetypes the wrong
\* way round
connect_edges_to_swapped(core, field, id, other) ==
    IF ~IsSome(other) THEN core
    ELSE [core EXCEPT
            !.archetypes[id].edges[field].add = other,
            !.archetypes[Unwrap(other)].edges[field].remove = Some(id)]

\* one iteration of connect_edges, `other` the archetype signature_index has
\* for the signature without the field
connect_edges_to(core, field, id, other) ==
    IF ~IsSome(other) THEN core
    ELSE [core EXCEPT
            !.archetypes[id].edges[field].remove = other,
            !.archetypes[Unwrap(other)].edges[field].add = Some(id)]

\* Core::connect_edges, from the field at position k of the signature
RECURSIVE connect_edges(_, _, _, _)
connect_edges(core, signature, id, k) ==
    IF k >= Len(signature) THEN core
    ELSE connect_edges(
            connect_edges_to(core, At(signature, k), id,
               signature_index_get(core, without(signature, At(signature, k)))),
            signature, id, k + 1)

\* the column loop of create_archetype: [panic, columns]
RECURSIVE create_columns(_, _, _, _)
create_columns_push(core, signature, k, columns, r) ==
    IF r.panic # NoPanic THEN [panic |-> r.panic, columns |-> columns]
    ELSE IF ~IsSome(r.info)
    THEN [panic |-> "called Option::unwrap() on a None value", columns |-> columns]
    ELSE create_columns(core, signature, k + 1,
                        Append(columns, Column_new(Unwrap(r.info))))

create_columns(core, signature, k, columns) ==
    IF k >= Len(signature) THEN [panic |-> NoPanic, columns |-> columns]
    ELSE create_columns_push(core, signature, k, columns,
            get_component_info(core, as_entity(At(signature, k))))

\* create_archetype that records every field of the new archetype at
\* ColumnIndex(0)
create_archetype_insert_first(core, signature, columns, id) ==
    connect_edges(
        [core EXCEPT
           !.archetypes = Append(@,
               [Archetype_default EXCEPT !.signature = signature,
                                         !.columns = columns]),
           !.signature_index = @ \cup {[signature |-> signature, id |-> id]},
           !.field_index =
               [f \in FieldIds |->
                   IF contains(signature, f)
                   THEN {e \in @[f] : e.id # id} \cup {[id |-> id, col |-> 0]}
                   ELSE @[f]]],
        signature, id, 0)

\* create_archetype from archetypes.insert on: the archetype, its
\* signature_index and field_index entries, its edges
create_archetype_insert(core, signature, columns, id) ==
    connect_edges(
        [core EXCEPT
           !.archetypes = Append(@,
               [Archetype_default EXCEPT !.signature = signature,
                                         !.columns = columns]),
           !.signature_index = @ \cup {[signature |-> signature, id |-> id]},
           !.field_index =
               [f \in FieldIds |->
                   IF contains(signature, f)
                   THEN {e \in @[f] : e.id # id}
                        \cup {[id |-> id, col |-> binary_search(signature, f).n]}
                   ELSE @[f]]],
        signature, id, 0)

\* create_archetype of a new signature, its columns created
create_archetype_new(m, signature, cols) ==
    IF cols.panic # NoPanic
    THEN [m |-> [m EXCEPT !.panic = cols.panic], id |-> 0]
    ELSE [m |-> [m EXCEPT !.core = create_archetype_insert(
                                       @, signature, cols.columns,
                                       Len(m.core.archetypes) + 1)],
          id |-> Len(m.core.archetypes) + 1]

\* a create_archetype that never looks the signature up
create_archetype_always(m, signature) ==
    create_archetype_new(m, signature,
                         create_columns(m.core, signature, 0, << >>))

\* Core::create_archetype: [m, id]
create_archetype(m, signature) ==
    IF IsSome(signature_index_get(m.core, signature))
    THEN [m |-> m, id |-> Unwrap(signature_index_get(m.core, signature))]
    ELSE create_archetype_new(m, signature,
                              create_columns(m.core, signature, 0, << >>))

\* the end of insert_bytes: write_into on the column field_index names
insert_bytes_column(m, destination, column, row, bytes) ==
    IF ~IsSome(column)
    THEN [m EXCEPT !.panic = "key not found in field_index"]
    ELSE IF Unwrap(column) >= Len(m.core.archetypes[destination].columns)
    THEN [m EXCEPT !.panic = "index out of bounds"]
    ELSE PutColX(m, destination, Unwrap(column),
                 write_into(ColX(m, destination, Unwrap(column)), row, bytes))

\* insert_bytes after move_entity: the location of the entity is read
\* again
insert_bytes_write(m, info, bytes, entity, destination) ==
    IF m.panic # NoPanic THEN m
    ELSE IF ~IsSome(entity_location(m.core, entity))
    THEN [m EXCEPT !.panic = "called Option::unwrap() on a None value"]
    ELSE insert_bytes_column(m, destination,
            field_locations_get(m.core, info.id,
                                Unwrap(entity_location(m.core, entity)).archetype),
            Unwrap(entity_location(m.core, entity)).row, bytes)

\* insert_bytes with the destination d = [m, id] found
insert_bytes_move(d, info, bytes, entity, current_location) ==
    insert_bytes_write(move_entity(d.m, current_location, d.id),
                       info, bytes, entity, d.id)

\* insert_bytes, "Find destination archetype": [m, id]
insert_destination(m, info, current_location) ==
    IF contains(m.core.archetypes[current_location.archetype].signature, info.id)
    THEN [m |-> m, id |-> current_location.archetype]
    ELSE IF IsSome(m.core.archetypes[current_location.archetype].edges[info.id].add)
    THEN [m |-> m,
          id |-> Unwrap(m.core.archetypes[current_location.archetype].edges[info.id].add)]
    ELSE create_archetype(m,
            with(m.core.archetypes[current_location.archetype].signature, info.id))

\* insert_bytes with the current location; `entity` is then read back from
\* the row of the archetype
insert_bytes_at(m, info, bytes, current_location) ==
    IF current_location.row >= Len(m.core.archetypes[current_location.archetype].entities)
    THEN [m EXCEPT !.panic = "index out of bounds"]
    ELSE insert_bytes_move(
            insert_destination(m, info, current_location), info, bytes,
            At(m.core.archetypes[current_location.archetype].entities,
               current_location.row),
            current_location)

\* insert_bytes that unwraps the location of the entity
insert_bytes_unwrap(m, info, bytes, entity) ==
    IF m.panic # NoPanic THEN m
    ELSE IF ~IsSome(entity_location(m.core, entity))
    THEN [m EXCEPT !.panic = "called Option::unwrap() on a None value"]
    ELSE insert_bytes_at(m, info, bytes, Unwrap(entity_location(m.core, entity)))

\* Core::insert_bytes
insert_bytes(m, info, bytes, entity) ==
    IF m.panic # NoPanic THEN m
    ELSE IF info.size # Len(bytes)
    THEN [m EXCEPT !.panic = "assertion failed: info.size == bytes.len()"]
    ELSE IF ~IsSome(entity_location(m.core, entity))
    THEN [m EXCEPT !.panic = "Entity does not exist"]
    ELSE insert_bytes_at(m, info, bytes, Unwrap(entity_location(m.core, entity)))

\* remove_field, "Find destination": [m, id]
remove_destination(m, field, current_location) ==
    IF IsSome(m.core.archetypes[current_location.archetype].edges[field].remove)
    THEN [m |-> m,
          id |-> Unwrap(m.core.archetypes[current_location.archetype].edges[field].remove)]
    ELSE create_archetype(m,
            without(m.core.archetypes[current_location.archetype].signature, field))

\* remove_field with the destination d = [m, id] found
remove_field_move(d, current_location) == move_entity(d.m, current_location, d.id)

\* Core::remove_field
remove_field(m, field, entity) ==
    IF m.panic # NoPanic THEN m
    ELSE IF ~IsSome(entity_location(m.core, entity))
    THEN [m EXCEPT !.panic = "Entity does not exist"]
    ELSE remove_field_move(
            remove_destination(m, field, Unwrap(entity_location(m.core, entity))),
            Unwrap(entity_location(m.core, entity)))

(***************************************************************************)
(* Command.  A queued command is [op, entity, info, bytes]; Spawn, Despawn *)
(* and Remove leave bytes empty, Remove uses only info.id (its field).     *)
(***************************************************************************)
Command_spawn(entity) ==
    [op |-> "Spawn", entity |-> entity, info |-> Component_info(ComponentInfoId),
     bytes |-> << >>]

Command_despawn(entity) ==
    [op |-> "Despawn", entity |-> entity, info |-> Component_info(ComponentInfoId),
     bytes |-> << >>]

Command_insert(info, bytes, entity) ==
    [op |-> "Insert", entity |-> entity, info |-> info, bytes |-> bytes]

Command_remove(field, entity) ==
    [op |-> "Remove", entity |-> entity, info |-> Component_info(field), bytes |-> << >>]

\* Command::apply
apply(m, command) ==
    CASE command.op = "Spawn" -> initialize_entity_location(m, command.entity)
      [] command.op = "Despawn" -> despawn(m, command.entity)
      [] command.op = "Insert" ->
            insert_bytes(m, command.info, command.bytes, command.entity)
      [] command.op = "Remove" -> remove_field(m, command.info.id, command.entity)

\* Mantle::flush on one queue, to completion or to the first panic
RECURSIVE apply_all(_, _)
apply_all(m, queue) ==
    IF m.panic # NoPanic \/ queue = << >> THEN m
    ELSE apply_all(apply(m, Head(queue)), Tail(queue))

(***************************************************************************)
(* The program state.                                                      *)
(*   core        Mantle.core                                               *)
(*   commands    Mantle.commands, the queue of every thread                *)
(*   flush_guard Crust.flush_guard                                         *)
(*   pc          where each thread is: "idle", inside a read section       *)
(*               ("read"), inside Mantle::flush ("flush"), or terminated   *)
(*               by a panic ("dead")                                       *)
(*   guards      the number of live ColumnReadGuards each thread holds     *)
(*   flush_cell  the thread whose queue Mantle::flush is draining          *)
(* History variables, written and never read by the program:               *)
(*   panicked    the panic that terminated each thread: its message and    *)
(*               the number of live guards when it was raised              *)
(*   drops       the bag of chunks the drop thunks were called on          *)
(*   next_val    the next fresh component value                            *)
(*   snapshot    the queues as they were when the running flush began      *)
(*   applied     the commands the running flush has applied, per queue     *)
(*   shadow      per entity slot, what the applied commands say the entity *)
(*               should hold: [generation, live, fields]                   *)
(***************************************************************************)
VARIABLES core, commands, flush_guard, pc, guards, panicked, flush_cell,
          drops, next_val, snapshot, applied, shadow

\* The Signature functions on their own: two signatures and the calls
\* func(n, m) that the last each_shared of the first on the second made
VARIABLES lhs, rhs, calls

units == << lhs, rhs, calls >>

vars == << core, commands, flush_guard, pc, guards, panicked, flush_cell,
           drops, next_val, snapshot, applied, shadow, lhs, rhs, calls >>

Threads == {1, 2}

NoCommands == [t \in Threads |-> << >>]

\* the commands the init callbacks of World::new enqueue, from entry k
RECURSIVE init_commands(_)
init_commands(k) ==
    IF k > Len(COMPONENT_ENTRIES) THEN << >>
    ELSE << Command_insert(Component_info(ComponentInfoId),
                           InfoBytes(COMPONENT_ENTRIES[k]),
                           from_offset(COMPONENT_ENTRIES[k].id)) >>
         \o init_commands(k + 1)

\* World::new: Core::new, the init callbacks, and the first flush
World_new ==
    apply_all([core |-> Core_new, drops |-> EmptyBag, panic |-> NoPanic],
              init_commands(1))

NoFields == [f \in FieldIds |-> None]

NotPanicked == [message |-> NoPanic, guards |-> 0]

\* the world after World::new
Booted ==
    /\ \E w \in {World_new} :
          /\ core = w.core
          /\ drops = w.drops
    /\ commands = NoCommands
    /\ flush_guard = 0
    /\ pc = [t \in Threads |-> "idle"]
    /\ guards = [t \in Threads |-> 0]
    /\ panicked = [t \in Threads |-> NotPanicked]
    /\ flush_cell = 0
    /\ next_val = 1
    /\ snapshot = NoCommands
    /\ applied = NoCommands
    /\ shadow = [k \in 1..Len(COMPONENT_ENTRIES) |->
                    [generation |-> 1, live |-> TRUE,
                     fields |-> [NoFields EXCEPT ![ComponentInfoId] =
                                    Some(InfoBytes(COMPONENT_ENTRIES[k]))]]]

Init ==
    /\ Booted
    /\ lhs = << >>
    /\ rhs = << >>
    /\ calls = << >>

(***************************************************************************)
(* The flush gate.                                                         *)
(***************************************************************************)
\* begin_read that adds one whatever the regime, wrapping at usize::MAX
begin_read_wrapping(old) == IF old = USIZE_MAX THEN Some(0) ELSE Some(old + 1)

\* the closure of Crust::begin_read: Some(old + 1) when old < usize::MAX
begin_read(old) == IF old < USIZE_MAX THEN Some(old + 1) ELSE None

\* end_read that only checks that there is something to subtract from
end_read_unchecked(old) == IF 0 < old THEN Some(old - 1) ELSE None

\* the closure of Crust::end_read
end_read(old) == IF 0 < old /\ old < USIZE_MAX THEN Some(old - 1) ELSE None

\* begin_flush that only checks that no other flush runs
begin_flush_unchecked(old) == IF old < USIZE_MAX THEN Some(USIZE_MAX) ELSE None

\* the closure of Crust::begin_flush
begin_flush(old) == IF 0 = old THEN Some(USIZE_MAX) ELSE None

\* the closure of Crust::end_flush
end_flush(old) == IF old = USIZE_MAX THEN Some(0) ELSE None

\* Crust::begin_access and Crust::end_access, which View::get and
\* ColumnReadGuard call: the guard holds the gate in the reader regime and
\* its drop releases one increment
begin_access(old) == begin_read(old)

end_access(old) == end_read(old)

\* the guards of a thread dropped one by one, as unwinding does
RECURSIVE drop_guards(_, _)
drop_guards(gate, n) ==
    IF n = 0 \/ ~IsSome(end_access(gate)) THEN gate
    ELSE drop_guards(Unwrap(end_access(gate)), n - 1)

\* the live guards of all threads
live_guards == guards[1] + guards[2]

\* the commands waiting in the queues of all threads
pending == Len(commands[1]) + Len(commands[2])

\* a panic terminates thread t: its stack unwinds, which drops the guards
\* it holds, and nothing else of the shared state changes
Panic(t, message, gate) ==
    /\ pc' = [pc EXCEPT ![t] = "dead"]
    /\ panicked' = [panicked EXCEPT ![t] =
                       [message |-> message, guards |-> live_guards]]
    /\ flush_guard' = drop_guards(gate, guards[t])
    /\ guards' = [guards EXCEPT ![t] = 0]

(***************************************************************************)
(* Entry points.  Every View/World call but flush opens a read section     *)
(* (Crust::mantle, or begin_access in View::get); the section is one step  *)
(* to open and one step for its body and its close.                        *)
(***************************************************************************)
\* the handles World::spawn has returned
Spawned ==
    {[index |-> i, generation |-> At(core.entity_index.slots, i).generation] :
        i \in Len(COMPONENT_ENTRIES)..(Len(core.entity_index.slots) - 1)}

\* the components a caller inserts and removes
UserFields == FieldIds \ {ComponentInfoId}

\* Crust::begin_read at the start of Crust::mantle, begin_access at the
\* start of View::get
ReadBegin(t) ==
    /\ pc[t] = "idle"
    /\ IF IsSome(begin_read(flush_guard))
       THEN /\ flush_guard' = Unwrap(begin_read(flush_guard))
            /\ pc' = [pc EXCEPT ![t] = "read"]
            /\ UNCHANGED << guards, panicked >>
       ELSE Panic(t, "Tried to read while structurally mutating", flush_guard)
    /\ UNCHANGED << core, commands, flush_cell, drops, next_val, snapshot,
                    applied, shadow >>
    /\ UNCHANGED units

\* Crust::end_read at the end of a read section that ran to its end
ReadClose(t) ==
    IF IsSome(end_read(flush_guard))
    THEN /\ flush_guard' = Unwrap(end_read(flush_guard))
         /\ pc' = [pc EXCEPT ![t] = "idle"]
         /\ UNCHANGED << guards, panicked >>
    ELSE Panic(t, "No read to end", flush_guard)

\* Mantle::enqueue
enqueue(t, command) == commands' = [commands EXCEPT ![t] = Append(@, command)]

\* World::spawn
Spawn(t, L) ==
    /\ pc[t] = "read"
    /\ Len(core.entity_index.slots) < Len(COMPONENT_ENTRIES) + L.spawns
    /\ pending < L.queue
    /\ \E r \in {create_uninitialized_entity(core)} :
          /\ core' = [core EXCEPT !.entity_index = r.map]
          /\ enqueue(t, Command_spawn(r.key))
          /\ shadow' = [k \in 1..(r.key.index + 1) |->
                           IF k = r.key.index + 1
                           THEN [generation |-> r.key.generation, live |-> TRUE,
                                 fields |-> NoFields]
                           ELSE shadow[k]]
    /\ ReadClose(t)
    /\ UNCHANGED << flush_cell, drops, next_val, snapshot, applied >>
    /\ UNCHANGED units

\* View::insert of a fresh value of component c
Insert(t, entity, c, L) ==
    /\ pc[t] = "read"
    /\ pending < L.queue
    /\ IF Component_info(c).size = 0
       THEN /\ enqueue(t, Command_insert(Component_info(c), << >>, entity))
            /\ UNCHANGED next_val
       ELSE /\ next_val <= L.vals
            /\ enqueue(t, Command_insert(Component_info(c), << next_val >>, entity))
            /\ next_val' = next_val + 1
    /\ ReadClose(t)
    /\ UNCHANGED << core, flush_cell, drops, snapshot, applied, shadow >>
    /\ UNCHANGED units

\* View::remove
Remove(t, entity, f, L) ==
    /\ pc[t] = "read"
    /\ pending < L.queue
    /\ enqueue(t, Command_remove(f, entity))
    /\ ReadClose(t)
    /\ UNCHANGED << core, flush_cell, drops, next_val, snapshot, applied, shadow >>
    /\ UNCHANGED units

\* View::despawn
Despawn(t, entity, L) ==
    /\ pc[t] = "read"
    /\ pending < L.queue
    /\ enqueue(t, Command_despawn(entity))
    /\ ReadClose(t)
    /\ UNCHANGED << core, flush_cell, drops, next_val, snapshot, applied, shadow >>
    /\ UNCHANGED units

\* the body of View::has with the location of the entity
has_at(c, field, location) ==
    IsSome(location) /\ archetype_has(c, field, Unwrap(location).archetype)

\* View::has: what the call returns
View_has(entity, field) == has_at(core, field, entity_location(core, entity))

\* World::get_entity: whether the call returns a View
get_entity(entity) == IsSome(entity_location(core, entity))

\* the body of View::get with the location of the entity
get_at(c, field, location) ==
    IF ~IsSome(location)
    THEN [panic |-> "called Option::unwrap() on a None value", bytes |-> None]
    ELSE get_bytes(c, field, Unwrap(location))

\* View::get between begin_access and end_access: [panic, bytes]
View_get(entity, field) == get_at(core, field, entity_location(core, entity))

\* View::has, World::get_entity, World::component_info: a read section that
\* changes nothing
Read(t) ==
    /\ pc[t] = "read"
    /\ ReadClose(t)
    /\ UNCHANGED << core, commands, flush_cell, drops, next_val, snapshot,
                    applied, shadow >>
    /\ UNCHANGED units

\* View::get that makes a guard: ColumnReadGuard::new takes the gate once
\* more, then the section of View::get closes
GetGuard(t, L) ==
    IF ~IsSome(begin_access(flush_guard))
    THEN Panic(t, "Tried to read while structurally mutating", flush_guard)
    ELSE /\ live_guards < L.guards
         /\ IF IsSome(end_access(Unwrap(begin_access(flush_guard))))
            THEN /\ flush_guard' = Unwrap(end_access(Unwrap(begin_access(flush_guard))))
                 /\ guards' = [guards EXCEPT ![t] = @ + 1]
                 /\ pc' = [pc EXCEPT ![t] = "idle"]
                 /\ UNCHANGED panicked
            ELSE Panic(t, "No read to end", flush_guard)

\* View::get of a sized component: a guard is made when the entity has the
\* component; a panic inside leaves the section open
Get(t, entity, c, L) ==
    /\ pc[t] = "read"
    /\ Component_info(c).size # 0
    /\ \E r \in {View_get(entity, c)} :
          IF r.panic # NoPanic THEN Panic(t, r.panic, flush_guard)
          ELSE IF IsSome(r.bytes) THEN GetGuard(t, L)
          ELSE ReadClose(t)
    /\ UNCHANGED << core, commands, flush_cell, drops, next_val, snapshot,
                    applied, shadow >>
    /\ UNCHANGED units

\* Drop for ColumnReadGuard
DropGuard(t) ==
    /\ pc[t] = "idle"
    /\ guards[t] > 0
    /\ IF IsSome(end_access(flush_guard))
       THEN /\ flush_guard' = Unwrap(end_access(flush_guard))
            /\ guards' = [guards EXCEPT ![t] = @ - 1]
            /\ UNCHANGED << pc, panicked >>
       ELSE Panic(t, "No read to end", flush_guard)
    /\ UNCHANGED << core, commands, flush_cell, drops, next_val, snapshot,
                    applied, shadow >>
    /\ UNCHANGED units

(***************************************************************************)
(* World::flush, one step per command.                                     *)
(***************************************************************************)
\* Crust::begin_flush at the start of Crust::flush
FlushBegin(t) ==
    /\ pc[t] = "idle"
    /\ IF IsSome(begin_flush(flush_guard))
       THEN /\ flush_guard' = Unwrap(begin_flush(flush_guard))
            /\ pc' = [pc EXCEPT ![t] = "flush"]
            /\ snapshot' = commands
            /\ UNCHANGED << guards, panicked >>
       ELSE /\ Panic(t, "Tried to structurally mutate while reading", flush_guard)
            /\ UNCHANGED snapshot
    /\ UNCHANGED << core, commands, flush_cell, drops, next_val, applied, shadow >>
    /\ UNCHANGED units

\* what an applied command means for the entity in slot k
shadow_put(sh, command, k) ==
    CASE command.op = "Spawn" -> sh
      [] command.op = "Despawn" ->
            [sh EXCEPT ![k].live = FALSE, ![k].fields = NoFields]
      [] command.op = "Insert" ->
            [sh EXCEPT ![k].fields[command.info.id] = Some(command.bytes)]
      [] command.op = "Remove" ->
            [sh EXCEPT ![k].fields[command.info.id] = None]

\* what an applied command means for the entity it names, if that is live
shadow_apply(sh, command) ==
    IF command.entity.index + 1 <= Len(sh)
       /\ sh[command.entity.index + 1].generation = command.entity.generation
       /\ sh[command.entity.index + 1].live
    THEN shadow_put(sh, command, command.entity.index + 1)
    ELSE sh

\* the queue the drain of Mantle::flush takes its next command from: the
\* cell it is in while that has commands, then any other cell that has
flush_cells ==
    IF flush_cell # 0 /\ commands[flush_cell] # << >> THEN {flush_cell}
    ELSE {c \in Threads : commands[c] # << >>}

\* a drain that yields the newest command first
drain_newest(queue) == queue[Len(queue)]

\* the command the drain of a queue yields next
drain_next(queue) == Head(queue)

\* the queue after the drain yielded a command
drain_rest(queue) == Tail(queue)

\* one iteration of the inner loop of Mantle::flush
FlushStep(t) ==
    /\ pc[t] = "flush"
    /\ \E c \in flush_cells :
       \E command \in {drain_next(commands[c])} :
       \E m \in {apply([core |-> core, drops |-> drops, panic |-> NoPanic], command)} :
          /\ core' = m.core
          /\ drops' = m.drops
          /\ flush_cell' = c
          /\ IF m.panic = NoPanic
             THEN /\ commands' = [commands EXCEPT ![c] = drain_rest(@)]
                  /\ applied' = [applied EXCEPT ![c] = Append(@, command)]
                  /\ shadow' = shadow_apply(shadow, command)
                  /\ UNCHANGED << pc, panicked, flush_guard, guards >>
             ELSE \* the Drain is dropped: the rest of the queue goes with it
                  /\ commands' = [commands EXCEPT ![c] = << >>]
                  /\ Panic(t, m.panic, flush_guard)
                  /\ UNCHANGED << applied, shadow >>
    /\ UNCHANGED << next_val, snapshot >>
    /\ UNCHANGED units

\* an outer loop that ends with the first cell it visited
cells_left_first == {c \in Threads : c = flush_cell /\ commands[c] # << >>}

\* the cells Mantle::flush has still to visit when its outer loop ends
cells_left == {c \in Threads : commands[c] # << >>}

\* Crust::end_flush once Mantle::flush has returned
FlushEnd(t) ==
    /\ pc[t] = "flush"
    /\ cells_left = {}
    /\ IF IsSome(end_flush(flush_guard))
       THEN /\ flush_guard' = Unwrap(end_flush(flush_guard))
            /\ pc' = [pc EXCEPT ![t] = "idle"]
            /\ UNCHANGED << guards, panicked >>
       ELSE Panic(t, "No write to end", flush_guard)
    /\ flush_cell' = 0
    /\ snapshot' = NoCommands
    /\ applied' = NoCommands
    /\ UNCHANGED << core, commands, drops, next_val, shadow >>
    /\ UNCHANGED units

(***************************************************************************)
(* The callers.  Spec has one caller thread and the whole store; SpecConc  *)
(* has two caller threads, one entity and one sized component; SpecQueue   *)
(* has two caller threads that fill their queues and flush, with a         *)
(* zero-sized component and no View::get; SpecStore has one caller thread  *)
(* that moves one entity between the archetypes of both components;        *)
(* SpecOrder has two caller threads and two entities, with a zero-sized    *)
(* component and no View::get.  The calls name entities World::spawn has   *)
(* returned.                                                               *)
(***************************************************************************)
Solo ==
    [threads |-> {1}, spawns |-> MaxSpawns, vals |-> MaxVals, queue |-> MaxQueue,
     guards |-> MaxGuards, fields |-> UserFields]

Conc ==
    [threads |-> Threads, spawns |-> ConcSpawns, vals |-> ConcVals,
     queue |-> ConcQueue, guards |-> MaxGuards, fields |-> {FooId}]

Queue ==
    [threads |-> Threads, spawns |-> QueueSpawns, vals |-> 0,
     queue |-> QueueLen, guards |-> 0, fields |-> {PlayerId}]

Store ==
    [threads |-> {1}, spawns |-> StoreSpawns, vals |-> StoreVals,
     queue |-> StoreQueue, guards |-> MaxGuards, fields |-> UserFields]

Order ==
    [threads |-> Threads, spawns |-> OrderSpawns, vals |-> 0,
     queue |-> OrderQueue, guards |-> 0, fields |-> {PlayerId}]

\* the calls that end without a guard, and World::flush
Calls(t, L) ==
    \/ ReadBegin(t)
    \/ Read(t)
    \/ Spawn(t, L)
    \/ \E e \in Spawned : \E c \in L.fields : Insert(t, e, c, L)
    \/ \E e \in Spawned : \E f \in L.fields : Remove(t, e, f, L)
    \/ \E e \in Spawned : Despawn(t, e, L)
    \/ FlushBegin(t)
    \/ FlushStep(t)
    \/ FlushEnd(t)

\* View::get and the drop of the guard it made
GuardCalls(t, L) ==
    \/ \E e \in Spawned : \E c \in L.fields : Get(t, e, c, L)
    \/ DropGuard(t)

Next == \E t \in Solo.threads : Calls(t, Solo) \/ GuardCalls(t, Solo)

Spec == Init /\ [][Next]_vars

NextConc == \E t \in Conc.threads : Calls(t, Conc) \/ GuardCalls(t, Conc)

SpecConc == Init /\ [][NextConc]_vars

NextQueue == \E t \in Queue.threads : Calls(t, Queue)

SpecQueue == Init /\ [][NextQueue]_vars

NextStore == \E t \in Store.threads : Calls(t, Store) \/ GuardCalls(t, Store)

SpecStore == Init /\ [][NextStore]_vars

NextOrder == \E t \in Order.threads : Calls(t, Order)

SpecOrder == Init /\ [][NextOrder]_vars

(***************************************************************************)
(* The Signature functions on their own (SpecSignature): the world stays   *)
(* as World::new left it, and Signature::new, with, without and            *)
(* each_shared are applied to signatures over the fields 0..MaxField.      *)
(***************************************************************************)
program == << core, commands, flush_guard, pc, guards, panicked, flush_cell,
              drops, next_val, snapshot, applied, shadow >>

SigFields == 0..MaxField

\* the slices Signature::new is given: in any order, with repetitions
Slices == UNION {[1..n -> SigFields] : n \in 0..SliceLen}

\* the signatures Signature::new makes of them
Signatures == {Signature_new(fields) : fields \in Slices}

InitSignature ==
    /\ Booted
    /\ lhs \in Signatures
    /\ rhs \in Signatures
    /\ calls = << >>

\* lhs = Signature::new(fields)
SigNew(fields) ==
    /\ lhs' = Signature_new(fields)
    /\ UNCHANGED << rhs, calls, program >>

\* lhs = lhs.with(field)
SigWith(field) ==
    /\ lhs' = with(lhs, field)
    /\ UNCHANGED << rhs, calls, program >>

\* lhs = lhs.without(field)
SigWithout(field) ==
    /\ lhs' = without(lhs, field)
    /\ UNCHANGED << rhs, calls, program >>

\* lhs.each_shared(&rhs, func), func recording its calls
SigEachShared ==
    /\ calls' = each_shared(lhs, rhs)
    /\ UNCHANGED << lhs, rhs, program >>

NextSignature ==
    \/ \E field \in SigFields : SigWithout(field)
    \/ \E field \in SigFields : SigWith(field)
    \/ \E fields \in Slices : SigNew(fields)
    \/ SigEachShared

SpecSignature == InitSignature /\ [][NextSignature]_vars

(***************************************************************************)
(* Properties.                                                             *)
(***************************************************************************)
\* a command panicked inside Mantle::flush: the flush never ended and the
\* command it was applying is applied in part
FlushAborted == flush_guard = USIZE_MAX /\ \A t \in Threads : pc[t] # "flush"

\* what the applied commands say the entity of a handle holds
Held(e) == shadow[e.index + 1]

\* C1: whenever no flush is running, View::get of a sized component c on a
\* live entity x that has c returns the value most recently inserted for
\* (x, c), whatever was applied to other entities
C1_GetReturnsLastInserted ==
    flush_guard # USIZE_MAX =>
        \A x \in Spawned : \A c \in UserFields :
            (/\ Component_info(c).size # 0
             /\ Held(x).live
             /\ IsSome(Held(x).fields[c])
             /\ View_has(x, c))
            => View_get(x, c) = [panic |-> NoPanic, bytes |-> Held(x).fields[c]]

\* C2: whenever no flush is running, View::has(f) on a handle e is true
\* exactly when e is live and the last Insert/Remove applied for (e, f) was
\* an Insert; it is false for a despawned entity
C2_HasFollowsLastCommand ==
    flush_guard # USIZE_MAX =>
        \A e \in Spawned : \A f \in UserFields :
            View_has(e, f) <=> (Held(e).live /\ IsSome(Held(e).fields[f]))

\* a step of Mantle::enqueue
C3_Enqueued == \E t \in Threads : Len(commands'[t]) > Len(commands[t])

\* a step in which a flush returns
C3_Flushed == \E t \in Threads : pc[t] = "flush" /\ pc'[t] = "idle"

\* command i of queue c is the last one of the flushed queues that names
\* its entity
C3_Last(c, i) ==
    \A d \in Threads : \A j \in 1..Len(snapshot[d]) :
        snapshot[d][j].entity = snapshot[c][i].entity => (d = c /\ j <= i)

\* the reads of the entity a command names show the command
C3_Shown(command) ==
    CASE command.op = "Spawn" -> get_entity(command.entity)
      [] command.op = "Despawn" -> ~get_entity(command.entity)
      [] command.op = "Insert" ->
            /\ View_has(command.entity, command.info.id)
            /\ command.info.size # 0
               => View_get(command.entity, command.info.id)
                      = [panic |-> NoPanic, bytes |-> Some(command.bytes)]
      [] command.op = "Remove" ->
            /\ ~View_has(command.entity, command.info.id)
            /\ command.info.size # 0
               => View_get(command.entity, command.info.id)
                      = [panic |-> NoPanic, bytes |-> None]

\* C3: an enqueue changes the result of no has, get or get_entity, and when
\* the flush returns, the reads of an entity show the last command the
\* flush applied to it
C3_DeferredUntilFlush ==
    [][/\ C3_Enqueued =>
            \A e \in Spawned :
                /\ get_entity(e)' = get_entity(e)
                /\ \A f \in UserFields :
                      /\ View_has(e, f)' = View_has(e, f)
                      /\ View_get(e, f)' = View_get(e, f)
       /\ C3_Flushed =>
            \A c \in Threads : \A i \in 1..Len(snapshot[c]) :
                C3_Last(c, i) =>
                    \A command \in {snapshot[c][i]} : C3_Shown(command)']_vars

\* C4: while a thread is inside Mantle::flush no read section is open and
\* no ColumnReadGuard is alive
C4_ReadsExcludeFlush ==
    \A t \in Threads :
        pc[t] = "flush" => \A u \in Threads : pc[u] # "read" /\ guards[u] = 0

\* a reader was turned away while a flush was applying commands
C4_Witness ==
    \E t, u \in Threads :
        /\ pc[t] = "flush"
        /\ applied[t] # << >>
        /\ panicked[u].message = "Tried to read while structurally mutating"

\* C5: while a ColumnReadGuard is alive, a call of World::flush panics in
\* begin_flush and changes neither Core nor any command queue
C5_FlushPanicsUnderGuard ==
    [][\A t \in Threads :
          (live_guards > 0 /\ FlushBegin(t)) =>
              /\ pc'[t] = "dead"
              /\ panicked'[t].message = "Tried to structurally mutate while reading"
              /\ core' = core
              /\ commands' = commands
              /\ drops' = drops]_vars

\* a flush was called and panicked while another thread held a guard
C5_Witness ==
    \E t, u \in Threads :
        /\ t # u
        /\ panicked[t].message = "Tried to structurally mutate while reading"
        /\ panicked[t].guards > 0
        /\ guards[u] > 0
        /\ commands[t] # << >>

\* the read sections in progress
C6_Sections == Cardinality({t \in Threads : pc[t] = "read"})

\* C6: outside a flush the gate counter is the number of live guards plus
\* the number of read sections in progress: each guard holds exactly one
\* increment, and with no guard and no section the counter is 0, so that
\* the next flush succeeds
C6_GateCountsGuards ==
    flush_guard # USIZE_MAX => flush_guard = live_guards + C6_Sections

\* C7: Mantle::flush applies the commands of a queue in the order they were
\* enqueued: what it has applied of a queue, followed by what is left of
\* it, is the queue as it was when the flush began
C7_AppliedInEnqueueOrder ==
    (\E t \in Threads : pc[t] = "flush") =>
        \A c \in Threads : applied[c] \o commands[c] = snapshot[c]

\* a flush has applied two different commands of one queue
C7_Witness ==
    \E t, c \in Threads :
        /\ pc[t] = "flush"
        /\ Len(applied[c]) = 2
        /\ applied[c][1] # applied[c][2]

\* C8: when a flush returns it has applied every command that was enqueued
\* before it, each once, and every queue is empty
C8_FlushAppliesAllOnce ==
    [][\A t \in Threads :
          (pc[t] = "flush" /\ pc'[t] = "idle") =>
              /\ applied = snapshot
              /\ \A c \in Threads : commands'[c] = << >>]_vars

\* a flush has applied the commands of the queues of both threads and is
\* about to return
C8_Witness ==
    \E t \in Threads :
        /\ pc[t] = "flush"
        /\ \A c \in Threads : snapshot[c] # << >> /\ applied[c] = snapshot[c]

\* the handle of the entity in a slot of entity_index
C9_Key(i) == [index |-> i - 1, generation |-> core.entity_index.slots[i].generation]

\* the entity of slot i, placed at loc, is listed at that row
C9_Listed(i, loc) ==
    /\ loc.archetype <= Len(core.archetypes)
    /\ loc.row < Len(core.archetypes[loc.archetype].entities)
    /\ At(core.archetypes[loc.archetype].entities, loc.row) = C9_Key(i)

\* C9: after every applied command, every live placed entity is listed at
\* the row of its index entry, and every handle listed in an archetype has
\* an index entry that points back at that archetype and row
C9_EntityLocation ==
    ~FlushAborted =>
        /\ \A i \in 1..Len(core.entity_index.slots) :
              (/\ IsSome(core.entity_index.slots[i].data)
               /\ Unwrap(core.entity_index.slots[i].data) # uninitialized)
              => C9_Listed(i, Unwrap(core.entity_index.slots[i].data))
        /\ \A a \in 1..Len(core.archetypes) :
              \A r \in 0..(Len(core.archetypes[a].entities) - 1) :
                  entity_location(core, At(core.archetypes[a].entities, r))
                      = Some([archetype |-> a, row |-> r])

C11_Entries(f, a, s) == {e \in core.field_index[f] : e.id = a} = s

\* C11: for every archetype and every field, field_index[f] has an entry
\* for the archetype exactly when f is in its signature, and the entry is
\* the position of f in the sorted signature, which is also the position
\* of the column of f in the archetype's column list
C11_FieldIndex ==
    \A a \in 1..Len(core.archetypes) : \A f \in FieldIds :
        IF contains(core.archetypes[a].signature, f)
        THEN \E n \in 0..(Len(core.archetypes[a].signature) - 1) :
                /\ C11_Entries(f, a, {[id |-> a, col |-> n]})
                /\ At(core.archetypes[a].signature, n) = f
                /\ \A k \in 0..(Len(core.archetypes[a].signature) - 1) :
                       k < n <=> At(core.archetypes[a].signature, k) < f
                /\ n < Len(core.archetypes[a].columns)
                /\ At(core.archetypes[a].columns, n).info.id = f
        ELSE C11_Entries(f, a, {})

\* an archetype of two fields was created, the second field in column 1
C11_Witness ==
    \E a \in 1..Len(core.archetypes) :
        /\ core.archetypes[a].signature = << PlayerId, FooId >>
        /\ field_locations_get(core, FooId, a) = Some(1)

\* the signature of the archetype an edge leads to
C12_To(edge) == core.archetypes[Unwrap(edge)].signature

\* C12: an add edge of archetype A for field f leads to the archetype of
\* signature(A).with(f) and f is not in signature(A); a remove edge leads
\* to the archetype of signature(A).without(f) and f is in signature(A)
C12_EdgeConsistency ==
    \A a \in 1..Len(core.archetypes) : \A f \in FieldIds :
        /\ IsSome(core.archetypes[a].edges[f].add) =>
              /\ Unwrap(core.archetypes[a].edges[f].add) <= Len(core.archetypes)
              /\ ~contains(core.archetypes[a].signature, f)
              /\ C12_To(core.archetypes[a].edges[f].add)
                    = with(core.archetypes[a].signature, f)
        /\ IsSome(core.archetypes[a].edges[f].remove) =>
              /\ Unwrap(core.archetypes[a].edges[f].remove) <= Len(core.archetypes)
              /\ contains(core.archetypes[a].signature, f)
              /\ C12_To(core.archetypes[a].edges[f].remove)
                    = without(core.archetypes[a].signature, f)

\* create_archetype connected an archetype of two fields to the archetype
\* of one of them, in both directions
C12_Witness ==
    \E a, b \in 1..Len(core.archetypes) :
        /\ core.archetypes[a].signature = << PlayerId, FooId >>
        /\ core.archetypes[b].signature = << PlayerId >>
        /\ core.archetypes[a].edges[FooId].remove = Some(b)
        /\ core.archetypes[b].edges[FooId].add = Some(a)

\* a value of component c to insert
C13_Bytes(c) == IF Component_info(c).size = 0 THEN << >> ELSE << 0 >>

\* Insert(c, e) applied to the store as it is
C13_Inserted(e, c) ==
    insert_bytes([core |-> core, drops |-> drops, panic |-> NoPanic],
                 Component_info(c), C13_Bytes(c), e)

\* Insert(c, e) and then Remove(c, e) applied to the store as it is
C13_Removed(e, c) == remove_field(C13_Inserted(e, c), c, e)

\* the Spawn of the entity was applied and it has not been despawned
C13_Placed(e) ==
    /\ get_entity(e)
    /\ Unwrap(entity_location(core, e)) # uninitialized

\* both commands are applied and the entity is in the archetype it was in
C13_Returns(e, m) ==
    /\ m.panic = NoPanic
    /\ IsSome(entity_location(m.core, e))
    /\ Unwrap(entity_location(m.core, e)).archetype
          = Unwrap(entity_location(core, e)).archetype

\* C13: whenever no flush is running, Insert(c, e) and then Remove(c, e),
\* applied for a placed entity e that does not have c, bring e back to the
\* ArchetypeId it is in, whatever archetypes and edges exist
C13_RoundTrip ==
    flush_guard # USIZE_MAX =>
        \A e \in Spawned : \A c \in UserFields :
            (C13_Placed(e) /\ ~View_has(e, c)) =>
                \A m \in {C13_Removed(e, c)} : C13_Returns(e, m)

\* the step applies the command at the head of queue q
C14_Applies(q) ==
    /\ \E t \in Threads : pc[t] = "flush"
    /\ commands[q] # << >>
    /\ Len(commands'[q]) < Len(commands[q])

\* the command removes a sized component whose value the entity holds and
\* the drop thunk has not been called on
C14_RemovesHeld(command) ==
    /\ command.op = "Remove"
    /\ command.info.size # 0
    /\ command.entity \in Spawned
    /\ Held(command.entity).live
    /\ Held(command.entity).generation = command.entity.generation
    /\ IsSome(Held(command.entity).fields[command.info.id])
    /\ ~BagIn(<< command.info.id, Unwrap(Held(command.entity).fields[command.info.id]) >>,
              drops)

\* the chunk of the value the entity of a command holds for its component
C14_Chunk(command) ==
    << command.info.id, Unwrap(Held(command.entity).fields[command.info.id]) >>

\* C14: the flush step that applies Remove(c, e), e holding the inserted
\* value v of c, calls the drop thunk once on v and on no other value,
\* whatever other entities hold c in the same archetype; v was not dropped
\* before
C14_DropOnRemove ==
    [][\A q \in Threads :
          (C14_Applies(q) /\ C14_RemovesHeld(Head(commands[q]))) =>
              drops' = drops (+) SetToBag({C14_Chunk(Head(commands[q]))})]_vars

\* C15: a spawned entity resolves through get_entity until its Despawn is
\* applied, and from then on get_entity on its handle returns None,
\* whatever is spawned afterwards
C15_GetEntity ==
    \A e \in Spawned :
        /\ ~Held(e).live => ~get_entity(e)
        /\ (Held(e).live /\ ~FlushAborted) => get_entity(e)

\* an entity was despawned and does not resolve, and an entity spawned
\* after it resolves to the first row of the empty archetype
C15_Witness ==
    \E e, x \in Spawned :
        /\ e.index < x.index
        /\ ~Held(e).live
        /\ ~get_entity(e)
        /\ Held(x).live
        /\ entity_location(core, x) = Some([archetype |-> empty_archetype, row |-> 0])

\* the entity of a registered component is listed in the ComponentInfo
\* archetype at the row of its index entry
C16_Stored(entity) ==
    /\ IsSome(entity_location(core, entity))
    /\ Unwrap(entity_location(core, entity)).archetype = component_info_archetype
    /\ Unwrap(entity_location(core, entity)).row
          < Len(core.archetypes[component_info_archetype].entities)
    /\ At(core.archetypes[component_info_archetype].entities,
          Unwrap(entity_location(core, entity)).row) = entity

\* C16: once World::new has returned, and as long as the callers name only
\* the entities they spawned, the entity of every registered component,
\* ComponentInfo included, is stored in the ComponentInfo archetype and
\* World::component_info returns the component's own ComponentInfo
C16_ComponentInfo ==
    \A k \in 1..Len(COMPONENT_ENTRIES) :
        /\ C16_Stored(from_offset(COMPONENT_ENTRIES[k].id))
        /\ get_component_info(core, from_offset(COMPONENT_ENTRIES[k].id))
              = [panic |-> NoPanic, info |-> Some(COMPONENT_ENTRIES[k])]

\* the init callbacks moved every component entity out of the empty
\* archetype, the last one by way of the row the first one left
C16_Witness ==
    /\ Len(core.archetypes[component_info_archetype].entities)
          = Len(COMPONENT_ENTRIES)
    /\ no_chunks(At(core.archetypes[component_info_archetype].columns, 0))
          = Len(COMPONENT_ENTRIES)
    /\ \A k \in 1..Len(COMPONENT_ENTRIES) :
          ~(from_offset(COMPONENT_ENTRIES[k].id)
              \in {core.archetypes[empty_archetype].entities[i] :
                     i \in 1..Len(core.archetypes[empty_archetype].entities)})

\* counter values on both sides of every threshold of the gate
C17_Counters == {0, 1, 2, USIZE_MAX - 1, USIZE_MAX}

\* the gate functions on a counter value n, as the transition table has them
C17_Table(n) ==
    /\ begin_read(n) = IF n < USIZE_MAX THEN Some(n + 1) ELSE None
    /\ end_read(n) = IF 0 < n /\ n < USIZE_MAX THEN Some(n - 1) ELSE None
    /\ begin_flush(n) = IF n = 0 THEN Some(USIZE_MAX) ELSE None
    /\ end_flush(n) = IF n = USIZE_MAX THEN Some(0) ELSE None

\* the step is a panic of thread t with this message: the transition
\* leaves the counter as it is, and the unwinding of t releases the
\* increments of the guards t holds
C17_Panics(t, message) ==
    /\ pc'[t] = "dead"
    /\ panicked'[t].message = message
    /\ flush_guard' = IF flush_guard = USIZE_MAX THEN flush_guard
                      ELSE flush_guard - guards[t]

\* the step moves the counter to n and thread t to the position at
C17_Moves(t, n, at) == flush_guard' = n /\ pc'[t] = at

\* C17: begin_read takes n to n + 1 exactly when n < MAX, end_read n to
\* n - 1 exactly when 0 < n < MAX, begin_flush 0 to MAX exactly when n = 0
\* (so a flush started during a flush panics), end_flush MAX to 0 exactly
\* when n = MAX; a transition that fails panics and leaves the counter
C17_GateTable ==
    [][/\ \A n \in C17_Counters \cup {flush_guard} : C17_Table(n)
       /\ \A t \in Threads :
             /\ ReadBegin(t) =>
                   IF flush_guard < USIZE_MAX
                   THEN C17_Moves(t, flush_guard + 1, "read")
                   ELSE C17_Panics(t, "Tried to read while structurally mutating")
             /\ Read(t) =>
                   IF 0 < flush_guard /\ flush_guard < USIZE_MAX
                   THEN C17_Moves(t, flush_guard - 1, "idle")
                   ELSE C17_Panics(t, "No read to end")
             /\ FlushBegin(t) =>
                   IF flush_guard = 0
                   THEN C17_Moves(t, USIZE_MAX, "flush")
                   ELSE C17_Panics(t, "Tried to structurally mutate while reading")
             /\ FlushEnd(t) =>
                   IF flush_guard = USIZE_MAX
                   THEN C17_Moves(t, 0, "idle")
                   ELSE C17_Panics(t, "No write to end")]_vars

\* a flush was started while another flush was in progress, and panicked
C17_Witness ==
    \E t, u \in Threads :
        /\ pc[t] = "flush"
        /\ flush_guard = USIZE_MAX
        /\ panicked[u].message = "Tried to structurally mutate while reading"
        /\ panicked[u].guards = 0

\* C18: a thread that is about to enqueue a command (View::insert,
\* View::remove, View::despawn, World::spawn) gets past the begin_read of
\* Crust::mantle, in which the call runs Mantle::enqueue, in every gate
\* state, also while another thread is inside flush()
C18_EnqueueAlwaysSucceeds ==
    \A t \in Threads : pc[t] = "idle" => IsSome(begin_read(flush_guard))

\* the indices of the slots of entity_index whose data was removed
C19_Removed ==
    {i \in 0..(Len(core.entity_index.slots) - 1) :
        ~IsSome(At(core.entity_index.slots, i).data)}

\* the key is that of a removed slot with another generation
C19_Reuses(key) ==
    /\ key.index \in C19_Removed
    /\ key.generation # At(core.entity_index.slots, key.index).generation

\* C19: the index of a slot whose entity was removed from the entity index
\* is available, and the next SlotMap::insert reuses such an index with a
\* generation different from that of the removed handle
C19_SlotReclaimed ==
    C19_Removed # {} =>
        /\ \A i \in C19_Removed :
              \E k \in 1..Len(core.entity_index.available) :
                  core.entity_index.available[k] = i
        /\ C19_Reuses(create_uninitialized_entity(core).key)

\* the command is an Insert or a Remove whose entity is not in entity_index
C20_Stale(command) ==
    /\ command.op \in {"Insert", "Remove"}
    /\ ~IsSome(entity_location(core, command.entity))

\* C20: the flush step that applies an Insert or a Remove whose entity is
\* absent from the entity index panics with "Entity does not exist" and
\* leaves archetypes, columns, edges and indices as they were
C20_AbsentEntityPanics ==
    [][\A t, q \in Threads :
          (/\ pc[t] = "flush"
           /\ commands[q] # << >>
           /\ Len(commands'[q]) < Len(commands[q])
           /\ C20_Stale(Head(commands[q]))) =>
              /\ pc'[t] = "dead"
              /\ panicked'[t].message = "Entity does not exist"
              /\ core' = core
              /\ drops' = drops]_vars

\* a flush panicked on a command for a despawned entity
C20_Witness ==
    \E t \in Threads :
        /\ panicked[t].message = "Entity does not exist"
        /\ \E e \in Spawned : ~Held(e).live /\ ~get_entity(e)

\* C21: View::get of a component the existing entity e does not have, e
\* spawned but not yet placed included, returns None, makes no guard and
\* gives back the one increment its begin_access took, so that the call
\* leaves the gate counter at its value before the call
C21_GetAbsentIsNone ==
    [][\A t \in Threads : \A e \in Spawned : \A c \in UserFields :
          (Get(t, e, c, Store) /\ get_entity(e) /\ ~View_has(e, c)) =>
              /\ View_get(e, c) = [panic |-> NoPanic, bytes |-> None]
              /\ guards' = guards
              /\ pc'[t] = "idle"
              /\ flush_guard' = flush_guard - 1]_vars

\* a caller is inside View::get of a sized component that returns None,
\* on an entity that is spawned and not yet placed or on one that holds
\* another component
C21_Witness ==
    \E t \in Threads : \E e \in Spawned :
        /\ pc[t] = "read"
        /\ flush_guard = 1
        /\ View_get(e, FooId) = [panic |-> NoPanic, bytes |-> None]
        /\ \/ entity_location(core, e) = Some(uninitialized)
           \/ View_has(e, PlayerId)

\* the entities the commands of a queue name
C22_Targets(queue) == {queue[i].entity : i \in 1..Len(queue)}

\* what the reads show of an entity at a location of a store
C22_View(c, location) ==
    [live |-> IsSome(location),
     has |-> [f \in UserFields |-> has_at(c, f, location)],
     get |-> [f \in UserFields |->
                 IF Component_info(f).size = 0 THEN None
                 ELSE get_at(c, f, location).bytes]]

\* the logical result of a flush that left the store m: whether it
\* panicked, and what the reads show of every entity
C22_Result(m) ==
    [panicked |-> m.panic # NoPanic,
     entities |-> [e \in Spawned |-> C22_View(m.core, entity_location(m.core, e))]]

\* Mantle::flush that drains the queue of thread a and then that of b
C22_Flush(a, b) ==
    apply_all(apply_all([core |-> core, drops |-> drops, panic |-> NoPanic],
                        commands[a]),
              commands[b])

\* C22: when the queues of the two threads name different entities, a
\* flush gives the same logical result (per entity: live or not, its
\* components, their values) whichever queue it drains first
C22_OrderIndependent ==
    (/\ \A t \in Threads : pc[t] = "idle"
     /\ flush_guard = 0
     /\ commands[1] # << >>
     /\ commands[2] # << >>
     /\ C22_Targets(commands[1]) \cap C22_Targets(commands[2]) = {})
    => C22_Result(C22_Flush(1, 2)) = C22_Result(C22_Flush(2, 1))

\* the ComponentInfo of every column of an archetype, in column order
C23_Columns(archetype) ==
    [n \in 1..Len(archetype.columns) |-> archetype.columns[n].info]

\* archetype a of the store c is registered under its signature
C23_Registered(c, a) ==
    [signature |-> c.archetypes[a].signature, id |-> a] \in c.signature_index

\* C23: no step removes an archetype or a signature_index entry or changes
\* the signature or the column list of an archetype, and the empty
\* archetype and the ComponentInfo archetype are there after every step,
\* also when an archetype has lost all its entities
C23_ArchetypesStay ==
    [][/\ Len(core'.archetypes) >= Len(core.archetypes)
       /\ core.signature_index \subseteq core'.signature_index
       /\ \A a \in 1..Len(core.archetypes) :
             /\ core'.archetypes[a].signature = core.archetypes[a].signature
             /\ C23_Columns(core'.archetypes[a]) = C23_Columns(core.archetypes[a])
             /\ C23_Registered(core, a) => C23_Registered(core', a)
       /\ core'.archetypes[empty_archetype].signature = << >>
       /\ C23_Registered(core', empty_archetype)
       /\ core'.archetypes[component_info_archetype].signature
             = << ComponentInfoId >>
       /\ C23_Registered(core', component_info_archetype)]_vars

\* an archetype create_archetype made has lost its only entity, as has the
\* empty archetype, and both are still registered
C23_Witness ==
    /\ Len(core.archetypes) > component_info_archetype
    /\ core.archetypes[empty_archetype].entities = << >>
    /\ \E a \in (component_info_archetype + 1)..Len(core.archetypes) :
          /\ core.archetypes[a].entities = << >>
          /\ C23_Registered(core, a)
    /\ \E e \in Spawned : ~get_entity(e)

\* archetype b has the signature of archetype a with field f added
C24_Differ(a, b, f) ==
    /\ ~contains(core.archetypes[a].signature, f)
    /\ core.archetypes[b].signature = with(core.archetypes[a].signature, f)

\* C24: two realized archetypes whose signatures differ by exactly one
\* field f are connected in both directions: the add edge for f of the
\* smaller leads to the larger and the remove edge of the larger to the
\* smaller
C24_EdgeComplete ==
    \A a, b \in 1..Len(core.archetypes) : \A f \in FieldIds :
        C24_Differ(a, b, f) =>
            /\ core.archetypes[a].edges[f].add = Some(b)
            /\ core.archetypes[b].edges[f].remove = Some(a)

\* the signature of the archetype the entity index of c places e in
C25_Signature(c, e) ==
    c.archetypes[Unwrap(entity_location(c, e)).archetype].signature

\* the signature a command asks for, from the signature the entity has
C25_Expected(command, signature) ==
    IF command.op = "Insert" THEN with(signature, command.info.id)
    ELSE without(signature, command.info.id)

\* the step applies an Insert or a Remove, at the head of queue q, to an
\* entity the entity index resolves
C25_Moves(q) ==
    /\ C14_Applies(q)
    /\ Head(commands[q]).op \in {"Insert", "Remove"}
    /\ IsSome(entity_location(core, Head(commands[q]).entity))

\* after the step the entity of the command is in the archetype whose
\* signature is the one the command asks for
C25_Lands(command, after) ==
    /\ IsSome(entity_location(after, command.entity))
    /\ C25_Signature(after, command.entity)
         = C25_Expected(command, C25_Signature(core, command.entity))

\* C25: applying Insert(c, e) leaves e in the archetype whose signature is
\* the old signature with c added, and applying Remove(f, e) in the one
\* whose signature is the old signature without f (the same archetype if
\* nothing changes), whether the destination was found through an edge or
\* through create_archetype
C25_DestinationSignature ==
    [][\A q \in Threads :
          C25_Moves(q) => C25_Lands(Head(commands[q]), core')]_vars

\* the signature_index entry of archetype a
C26_Entry(a) == [id |-> a, signature |-> core.archetypes[a].signature]

\* create_archetype on the signature of archetype a, in the current state
C26_Again(a) ==
    create_archetype([core |-> core, drops |-> drops, panic |-> NoPanic],
                     core.archetypes[a].signature)

\* C26: no two archetypes have the same signature, signature_index maps
\* each realized signature to the one archetype that has it and holds
\* nothing else, and create_archetype on a realized signature returns the
\* id of that archetype and changes nothing
C26_SignatureUnique ==
    /\ \A a, b \in 1..Len(core.archetypes) :
          core.archetypes[a].signature = core.archetypes[b].signature => a = b
    /\ core.signature_index = {C26_Entry(a) : a \in 1..Len(core.archetypes)}
    /\ \A a \in 1..Len(core.archetypes) :
          /\ signature_index_get(core, core.archetypes[a].signature) = Some(a)
          /\ C26_Again(a) = [m |-> [core |-> core, drops |-> drops, panic |-> NoPanic],
                             id |-> a]

\* a flush is about to apply Insert(Player, e) to an entity of the archetype
\* [Foo] while [Player, Foo] is realized and no add edge leads to it:
\* insert_bytes calls create_archetype on a realized signature
C26_Witness ==
    /\ \E t \in Threads : pc[t] = "flush" /\ commands[t] # << >>
          /\ Head(commands[t]).op = "Insert"
          /\ Head(commands[t]).info.id = PlayerId
          /\ IsSome(entity_location(core, Head(commands[t]).entity))
          /\ C25_Signature(core, Head(commands[t]).entity) = << FooId >>
          /\ ~IsSome(core.archetypes[Unwrap(entity_location(core,
                        Head(commands[t]).entity)).archetype].edges[PlayerId].add)
    /\ IsSome(signature_index_get(core, << PlayerId, FooId >>))

\* the store with the chunk of column k of an archetype, at a row, replaced
\* by bytes and the chunk that was there handed to the drop thunk once
C27_Replaced(archetype, k, row, bytes) ==
    [core |-> [core EXCEPT
                 !["archetypes"][archetype].columns[k + 1].buffer =
                     put_chunk(@, Len(bytes), row, bytes)],
     drops |-> drops (+) SetToBag({
                 << At(core.archetypes[archetype].columns, k).info.id,
                    get_chunk(At(core.archetypes[archetype].columns, k), row) >>}),
     panic |-> NoPanic]

\* the store after an overwrite in place of component c of entity e
C27_InPlace(e, c) ==
    C27_Replaced(Unwrap(entity_location(core, e)).archetype,
                 Unwrap(field_locations_get(core, c,
                            Unwrap(entity_location(core, e)).archetype)),
                 Unwrap(entity_location(core, e)).row,
                 C13_Bytes(c))

\* C27: Insert(c, e) applied to an entity that holds the sized component c,
\* at any row of its archetype, completes and changes nothing but the chunk
\* of c at the row of e, which becomes the new value, and the drops, which
\* gain the old value once
C27_OverwriteInPlace ==
    \A e \in Spawned : \A c \in UserFields :
        (C13_Placed(e) /\ View_has(e, c) /\ Component_info(c).size # 0) =>
            /\ C13_Inserted(e, c).panic = NoPanic
            /\ C13_Inserted(e, c) = C27_InPlace(e, c)

\* Despawn(e) applied to the store as it is
C28_Despawned(e) == despawn([core |-> core, drops |-> drops, panic |-> NoPanic], e)

\* the columns of the archetype at a location
C28_Columns(c, location) == c.archetypes[location.archetype].columns

\* the component values of the entity at a location, one per column
C28_Values(location) ==
    SetToBag({<< C28_Columns(core, location)[k].info.id,
                 get_chunk(C28_Columns(core, location)[k], location.row) >> :
              k \in 1..Len(C28_Columns(core, location))})

\* column k of the archetype has one row less in store c, and the chunk that
\* was last is at the row of the location unless that row was the last
C28_Swapped(c, location, k) ==
    /\ Len(C28_Columns(c, location)[k].buffer)
         = Len(C28_Columns(core, location)[k].buffer)
             - C28_Columns(core, location)[k].info.size
    /\ location.row + 1 < Len(core.archetypes[location.archetype].entities) =>
          get_chunk(C28_Columns(c, location)[k], location.row)
            = get_chunk(C28_Columns(core, location)[k],
                        Len(core.archetypes[location.archetype].entities) - 1)

\* the despawn completed, dropped the values of the entity once each and
\* nothing else, and swapped the last row of every column into its row
C28_Dropped(m, location) ==
    /\ m.panic = NoPanic
    /\ m.drops = drops (+) C28_Values(location)
    /\ \A k \in 1..Len(C28_Columns(core, location)) :
          C28_Swapped(m.core, location, k)

\* C28: Despawn(e) runs the drop thunk exactly once on each component value
\* e holds and on no other value; every column of the archetype of e loses
\* one row and the chunk that was last sits at the row of e
C28_DespawnDropsOnce ==
    \A e \in Spawned :
        C13_Placed(e) =>
            C28_Dropped(C28_Despawned(e), Unwrap(entity_location(core, e)))

\* the entities of the archetype at a location
C29_Entities(location) == core.archetypes[location.archetype].entities

\* the entity is listed at the row its location names, and that row is not
\* the last of its archetype
C29_NotLast(e, location) ==
    /\ location # uninitialized
    /\ location.row + 1 < Len(C29_Entities(location))
    /\ At(C29_Entities(location), location.row) = e

\* the entity index of store c places the entity that was last in the
\* archetype at the row of the location
C29_Displaced(c, location) ==
    entity_location(c, C29_Entities(location)[Len(C29_Entities(location))])
        = Some([archetype |-> location.archetype, row |-> location.row])

\* C29: when Despawn(e) is applied to an entity that is not at the last row
\* of its archetype, the entity swapped into its row has its entity index
\* entry at that row when the command completes
C29_DisplacedUpdated ==
    \A e \in Spawned :
        (get_entity(e) /\ C29_NotLast(e, Unwrap(entity_location(core, e)))) =>
            /\ C28_Despawned(e).panic = NoPanic
            /\ C29_Displaced(C28_Despawned(e).core, Unwrap(entity_location(core, e)))

\* the operation completed and no zero-sized column holds a byte
C30_Clean(m) ==
    /\ m.panic = NoPanic
    /\ \A a \in 1..Len(m.core.archetypes) :
       \A k \in 1..Len(m.core.archetypes[a].columns) :
          m.core.archetypes[a].columns[k].info.size = 0 =>
              m.core.archetypes[a].columns[k].buffer = << >>

\* Remove(c, e) applied to the store as it is
C30_Removed(e, c) ==
    remove_field([core |-> core, drops |-> drops, panic |-> NoPanic], c, e)

\* C30: for a zero-sized component c, Insert(c, e) completes without a
\* panic, and so do Remove(c, e) and Despawn(e) on an entity that holds c;
\* the column of c never holds a byte
C30_ZeroSized ==
    \A e \in Spawned : \A c \in UserFields :
        (C13_Placed(e) /\ Component_info(c).size = 0) =>
            /\ C30_Clean(C13_Inserted(e, c))
            /\ View_has(e, c) =>
                  /\ C30_Clean(C30_Removed(e, c))
                  /\ C30_Clean(C28_Despawned(e))

\* the calls are func(i, j) exactly once for every pair of indices at
\* which the signatures a and b have the same field, in increasing order of
\* i, and nothing else
C31_Pairs(a, b, made) ==
    /\ \A k \in 1..Len(made) :
          /\ made[k][1] < Len(a)
          /\ made[k][2] < Len(b)
          /\ At(a, made[k][1]) = At(b, made[k][2])
    /\ \A i \in 0..(Len(a) - 1) : \A j \in 0..(Len(b) - 1) :
          At(a, i) = At(b, j) =>
              Cardinality({k \in 1..Len(made) : made[k] = << i, j >>}) = 1
    /\ \A k \in 1..(Len(made) - 1) : made[k][1] < made[k + 1][1]

\* C31: for two sorted, duplicate-free signatures each_shared calls func
\* exactly once for every index pair (i, j) with self[i] = other[j], in
\* increasing order of i, and never for a pair of unequal fields or an
\* index past the end of a signature
C31_EachShared == [][SigEachShared => C31_Pairs(lhs, rhs, calls')]_vars

\* each_shared was called on signatures with two shared fields at different
\* indices and a field of each that the other has not
C31_Witness ==
    /\ Len(calls) = 2
    /\ calls = each_shared(lhs, rhs)
    /\ calls[1][1] # calls[1][2]
    /\ \E i \in 1..Len(lhs) : ~contains(rhs, lhs[i])
    /\ \E j \in 1..Len(rhs) : ~contains(lhs, rhs[j])

\* the fields of a vector
C32_Set(vec) == {vec[k] : k \in 1..Len(vec)}

\* the signature is strictly sorted, and contains is true exactly for its
\* fields
C32_Sorted(sig) ==
    /\ \A k \in 1..(Len(sig) - 1) : sig[k] < sig[k + 1]
    /\ \A f \in SigFields : contains(sig, f) <=> f \in C32_Set(sig)

\* C32: new, with and without give strictly sorted, duplicate-free
\* signatures with the fields of the slice, the fields and f, the fields
\* but f; with(f) is idempotent, without(f) of an absent field changes
\* nothing, with(f) then without(f) of an absent f gives the signature
\* back, and contains is true exactly for the fields of the signature
C32_SignatureAlgebra ==
    [][/\ \A fields \in Slices :
             SigNew(fields) =>
                 C32_Sorted(lhs') /\ C32_Set(lhs') = C32_Set(fields)
       /\ \A f \in SigFields :
             /\ SigWith(f) =>
                   /\ C32_Sorted(lhs')
                   /\ C32_Set(lhs') = C32_Set(lhs) \cup {f}
                   /\ with(lhs', f) = lhs'
                   /\ f \notin C32_Set(lhs) => without(lhs', f) = lhs
             /\ SigWithout(f) =>
                   /\ C32_Sorted(lhs')
                   /\ C32_Set(lhs') = C32_Set(lhs) \ {f}
                   /\ f \notin C32_Set(lhs) => lhs' = lhs]_vars

\* a signature of more fields than a slice given to new has: with has
\* added one
C32_Witness == Len(lhs) = SliceLen + 1

\* the entity is in the entity list of some archetype of store c
C33_Listed(c, e) ==
    \E a \in 1..Len(c.archetypes) :
    \E i \in 1..Len(c.archetypes[a].entities) : c.archetypes[a].entities[i] = e

\* the step is a World::spawn: the handle it returns has the sentinel
\* location and no archetype has changed
C33_Allocated ==
    /\ core'.archetypes = core.archetypes
    /\ \A e \in Spawned' \ Spawned :
          entity_location(core', e) = Some(uninitialized)

\* the step applies the Spawn of an entity that has the sentinel location
C33_Applies(q) ==
    /\ C14_Applies(q)
    /\ Head(commands[q]).op = "Spawn"
    /\ entity_location(core, Head(commands[q]).entity) = Some(uninitialized)

\* the store after a Spawn of e is applied: e is appended to the empty
\* archetype and its location is the row it got
C33_Placed(e) ==
    [core EXCEPT
       !.archetypes[empty_archetype].entities = Append(@, e),
       !.entity_index.slots[e.index + 1].data =
           Some([archetype |-> empty_archetype,
                 row |-> Len(core.archetypes[empty_archetype].entities)])]

\* Spawn(e) applied to the store as it is
C33_Again(e) ==
    initialize_entity_location([core |-> core, drops |-> drops, panic |-> NoPanic], e)

\* C33: World::spawn gives the handle the sentinel location (empty
\* archetype, row usize::MAX) and touches no archetype; a handle with the
\* sentinel location is in no entity list; applying its Spawn appends it to
\* the empty archetype once, at row = the previous length, and changes
\* nothing else; applying Spawn to an entity with a real location changes
\* nothing
C33_SpawnPlacement ==
    [][/\ \A e \in Spawned :
             /\ entity_location(core, e) = Some(uninitialized) => ~C33_Listed(core, e)
             /\ (get_entity(e) /\ entity_location(core, e) # Some(uninitialized)) =>
                   C33_Again(e) = [core |-> core, drops |-> drops, panic |-> NoPanic]
       /\ \A t \in Threads : Spawn(t, Order) => C33_Allocated
       /\ \A q \in Threads :
             C33_Applies(q) =>
                 /\ core' = C33_Placed(Head(commands[q]).entity)
                 /\ drops' = drops
                 /\ \E t \in Threads : pc'[t] = "flush"]_vars

\* both Spawns are applied: the entities are in rows 0 and 1 of the empty
\* archetype, in the order their Spawns were applied
C33_Witness ==
    /\ Len(core.archetypes[empty_archetype].entities) = 2
    /\ \A i \in 1..2 :
          entity_location(core, core.archetypes[empty_archetype].entities[i])
            = Some([archetype |-> empty_archetype, row |-> i - 1])

\* C34: the counter of the gate is usize::MAX exactly when a flush is in
\* progress, and otherwise it is the number of read sections in progress
\* plus the number of live guards; a begin_read that succeeds does not
\* take it to usize::MAX
C34_GateRegime ==
    /\ flush_guard = USIZE_MAX <=> \E t \in Threads : pc[t] = "flush"
    /\ flush_guard # USIZE_MAX => flush_guard = C6_Sections + live_guards
    /\ IsSome(begin_read(flush_guard)) =>
          Unwrap(begin_read(flush_guard)) # USIZE_MAX

\* generations on both sides of the wrap
C35_Generations == {0, 1, U32_MAX - 1, U32_MAX}

\* the keys of the entity index that resolve
C35_Live(map) ==
    {k \in {[index |-> i - 1, generation |-> map.slots[i].generation] :
                i \in 1..Len(map.slots)} : IsSome(SlotMap_get(map, k))}

\* the key that the end of SlotMap::insert gives slot i of the entity index
\* when the generation of the slot is g
C35_Key(i, g) == SlotMap_insert_at(core.entity_index, i, uninitialized, g).key

\* the key that SlotMap::insert returned in a World::spawn of thread t
C35_Returned(t) == commands'[t][Len(commands'[t])].entity

\* C35: no key that SlotMap::insert returns has generation 0 and none
\* equals a key that is live; the generation of the slot is one more than
\* it was and 1 after u32::MAX; no key of generation 0, Entity::null()
\* among them, resolves through SlotMap::get
C35_Keys ==
    [][/\ \A i \in 0..(Len(core.entity_index.slots) - 1) :
             /\ ~IsSome(SlotMap_get(core.entity_index, [index |-> i, generation |-> 0]))
             /\ \A g \in C35_Generations :
                   /\ C35_Key(i, g).index = i
                   /\ C35_Key(i, g).generation = IF g = U32_MAX THEN 1 ELSE g + 1
                   /\ C35_Key(i, g).generation # 0
       /\ ~IsSome(SlotMap_get(core.entity_index,
                               [index |-> Len(core.entity_index.slots), generation |-> 0]))
       /\ \A t \in Threads :
             Spawn(t, Order) =>
                 /\ C35_Returned(t).generation # 0
                 /\ C35_Returned(t) \notin C35_Live(core.entity_index)
                 /\ C35_Live(core'.entity_index)
                      = C35_Live(core.entity_index) \cup {C35_Returned(t)}]_vars

\* two keys that World::spawn returned are live
C35_Witness == Cardinality({e \in Spawned : get_entity(e)}) = 2

\* the store as it is, and the store after one more Insert(Foo, c) on an
\* entity that does not hold Foo
C36_Stores ==
    {[core |-> core, drops |-> drops, panic |-> NoPanic]}
    \cup {C13_Inserted(c, FooId) :
            c \in {c \in Spawned : C13_Placed(c) /\ ~View_has(c, FooId)}}

\* in store b the entity is listed at the row of its location, that row is
\* not the last of its archetype, and the archetype has Foo and not Player
C36_Inside(b, e, location) ==
    /\ location # uninitialized
    /\ location.row + 1 < Len(b.core.archetypes[location.archetype].entities)
    /\ At(b.core.archetypes[location.archetype].entities, location.row) = e
    /\ b.core.archetypes[location.archetype].signature = << FooId >>

\* the Foo chunk of the entity at a location of store c
C36_Chunk(c, location) ==
    get_chunk(At(c.archetypes[location.archetype].columns,
                 Unwrap(field_locations_get(c, FooId, location.archetype))),
              location.row)

\* the last entity of the archetype at a location of store b
C36_Last(b, location) ==
    b.core.archetypes[location.archetype].entities[
        Len(b.core.archetypes[location.archetype].entities)]

\* store m is store b after move_entity took e from the location to the
\* archetype [Player, Foo]: no drop thunk ran, the entity that was last in
\* the old archetype has the vacated row in the index and its chunk there,
\* and the chunk of e is at the row e has now, the tail of the new column
C36_Moved(b, m, e, location) ==
    /\ m.panic = NoPanic
    /\ m.drops = b.drops
    /\ entity_location(m.core, C36_Last(b, location)) = Some(location)
    /\ C36_Chunk(m.core, location)
         = C36_Chunk(b.core, [location EXCEPT
              !.row = Len(b.core.archetypes[location.archetype].entities) - 1])
    /\ IsSome(entity_location(m.core, e))
    /\ Unwrap(entity_location(m.core, e)).row + 1
         = Len(m.core.archetypes[Unwrap(entity_location(m.core, e)).archetype].entities)
    /\ C36_Chunk(m.core, Unwrap(entity_location(m.core, e)))
         = C36_Chunk(b.core, location)

\* C36: when move_entity takes an entity that is not at the last row out
\* of its archetype (here from [Foo] to [Player, Foo], by Insert(Player)),
\* the entity swapped into the row gets that row in the entity index, the
\* chunk of the moved entity arrives at the tail of the shared column of
\* the new archetype with no call of the drop thunk, and the chunk of the
\* displaced entity is at the vacated row
C36_MoveDisplaces ==
    \A b \in C36_Stores : \A e \in Spawned :
        (/\ b.panic = NoPanic
         /\ IsSome(entity_location(b.core, e))
         /\ C36_Inside(b, e, Unwrap(entity_location(b.core, e)))) =>
            C36_Moved(b, insert_bytes(b, Component_info(PlayerId), << >>, e),
                      e, Unwrap(entity_location(b.core, e)))

\* the step applies an Insert or a Remove at the head of queue q
C37_Applies(q) ==
    /\ C14_Applies(q)
    /\ Head(commands[q]).op \in {"Insert", "Remove"}

\* the entity is in the same archetype in store c as it is now
C37_Stays(c, x) ==
    /\ IsSome(entity_location(c, x))
    /\ Unwrap(entity_location(c, x)).archetype
         = Unwrap(entity_location(core, x)).archetype

\* C37: applying Insert(c, e) or Remove(f, e) leaves every live entity
\* other than e in the archetype it was in, with the same component set,
\* whatever happens to its row
C37_Frame ==
    [][\A q \in Threads :
          C37_Applies(q) =>
              \A x \in Spawned \ {Head(commands[q]).entity} :
                  get_entity(x) => C37_Stays(core', x)]_vars

\* the command is the Spawn of its entity, or names an entity that was
\* spawned and that no command applied before it has despawned
C38_WellFormed(command) ==
    /\ command.entity \in Spawned
    /\ Held(command.entity).generation = command.entity.generation
    /\ Held(command.entity).live

\* C38: a flush step that applies a command of a single caller thread to
\* an entity that was spawned earlier and not despawned before the command
\* does not panic: the flush goes on
C38_FlushCompletes ==
    [][\A q \in Threads :
          (C14_Applies(q) /\ C38_WellFormed(Head(commands[q]))) =>
              \A t \in Threads : pc[t] = "flush" => pc'[t] = "flush"]_vars

\* the step is a panic of thread t inside the operation it is in at
C39_Fails(t, at) == pc[t] = at /\ pc'[t] = "dead"

\* C39: a panic inside a flush or inside a read section leaves the gate
\* counter at the value it had before the begin_flush or begin_read of the
\* operation: 0 after a flush, and after a read section the counter less
\* the increment of the section and those of the guards the unwinding
\* drops; later reads and flushes are not locked out
C39_GateReleased ==
    [][\A t \in Threads :
          /\ C39_Fails(t, "flush") =>
                /\ flush_guard' = 0
                /\ IsSome(begin_read(flush_guard'))
                /\ IsSome(begin_flush(flush_guard'))
          /\ C39_Fails(t, "read") =>
                /\ flush_guard' = flush_guard - 1 - guards[t]
                /\ IsSome(begin_read(flush_guard'))]_vars

\* the handles of an entity slot that do not resolve: the one World::spawn
\* returned once the entity is despawned, and those of other generations
C40_Gone ==
    {k \in UNION {{[index |-> e.index, generation |-> g] :
                       g \in {0, e.generation, e.generation + 1}} :
                   e \in Spawned} :
        ~IsSome(entity_location(core, k))}

\* the step applies, at the head of queue q, the Despawn of a handle that
\* does not resolve
C40_Applies(q) ==
    /\ C14_Applies(q)
    /\ Head(commands[q]).op = "Despawn"
    /\ ~IsSome(entity_location(core, Head(commands[q]).entity))

\* C40: applying Despawn to a handle that is no longer in the entity index
\* changes no archetype, column, edge or index entry, runs no drop thunk
\* and does not panic
C40_StaleDespawn ==
    [][/\ \A k \in C40_Gone :
             C28_Despawned(k) = [core |-> core, drops |-> drops, panic |-> NoPanic]
       /\ \A q \in Threads :
             C40_Applies(q) =>
                 /\ core' = core
                 /\ drops' = drops
                 /\ pc' = pc
                 /\ commands'[q] = Tail(commands[q])]_vars

\* a flush has applied the Despawn of the same entity twice, and goes on
C40_Witness ==
    \E q \in Threads :
        /\ Len(applied[q]) = 2
        /\ applied[q][1].op = "Despawn"
        /\ applied[q][2] = applied[q][1]
        /\ \E t \in Threads : pc[t] = "flush"
        /\ applied[q][1].entity \in C40_Gone
====
